---- MODULE Spec2Model ----
(***************************************************************************)
(* Search benchmark: cost ledger (CostLogger), hybrid search function,     *)
(* accuracy evaluator, the hybrid benchmark hit by hit, sample data        *)
(* generators, the benchmark run (BenchmarkRunner.run) and the per-method  *)
(* cost tracker (HybridSearchCostTracker).                                 *)
(*                                                                         *)
(* Units.  Costs are counted in nano-dollars (1e-9 $) and times in         *)
(* milliseconds: 0.0001 $ is 100000, 0.00001 $ is 10000, 0.000001 $ is      *)
(* 1000; a surcharge of 0.00001 $ per second is 10 per millisecond.        *)
(*                                                                         *)
(* Arithmetic.  The source computes costs and times in Python floats,      *)
(* whose every operation rounds its exact result to the nearest value with *)
(* a 53-bit significand (ties to even).  The model keeps that rounding with *)
(* a significand of MantissaBits bits: every rate is representable, the    *)
(* cost of a single call and the sums of costs need not be.                *)
(***************************************************************************)
EXTENDS Integers, Sequences, FiniteSets, TLC

\* ---------------------------------------------------------------- bounds
\* longest event log a CostLogger is driven to
MaxLogs == 3

\* bits of the significand of a float
MantissaBits == 12
\* documents the two backends hold (ids 1..NumDocs)
NumDocs == 3
\* most queries one benchmark pass is given
MaxQueries == 2

\* most hits the search capability handed to the evaluator returns
MaxHits == 6

\* most documents and most queries the generators are asked for
MaxDocuments == 11
MaxCount == 46
\* the calls of track_search_method a tracker gets at most
MaxTracks == 2

\* ------------------------------------------------------ program constants
\* es_indexer.search(query, size=5), qdrant_indexer.search(query, limit=5)
SearchLimit == 5
\* return combined[:10]
FusedLimit == 10
\* for result in search_results[:5]
TopContexts == 5
\* EMBEDDING_COST_PER_1K default "0.0001"
embedding_cost_per_1k == 100000
\* VECTOR_DB_COST_PER_QUERY default "0.00001"
vector_db_cost_per_query == 10000
\* LEXICAL_DB_COST_PER_QUERY default "0.000001"
lexical_db_cost_per_query == 1000
\* compute_time * 0.00001 (per second), per millisecond
VectorTimeRate == 10
\* latency * 0.000001 (per second), per millisecond
LexicalTimeRate == 1

\* token counts and times (ms) a caller may pass to the log_* methods
TokenInputs == {-1000, 0, 1000}
TimeInputs == {-2000, 0, 50, 639}

\* the times (ms) a backend call may take, and a scoring call
ElapsedMs == {0, 50}
ScoringMs == {20}
\* the scores a metric may report (0.0 and 1.0)
Scores == {0, 1}
None == "None"

VARIABLES
    \* CostLogger fields
    embedding_calls, vector_queries, lexical_queries, compute_time, cost_logs,
    \* the caller of the CostLogger: the last two methods called, what the
    \* last call returned (the other return slot is cleared), the calls made
    \* since construction or the last reset, and whether reset was ever called
    last_call, prev_call, ret_cost, ret_breakdown, history, was_reset,
    \* run_hybrid_search_benchmark: the test queries (their word counts), the
    \* index of the query search_function is serving, its position, its
    \* locals, the list it returned, and the calls it made for this query
    h_queries, h_i, h_pc, keyword_results, vector_results, combined, h_trace,
    \* evaluate_search_method: len(test_queries), the number of queries
    \* evaluated, the position, the locals of the current iteration
    \* (search_results, search_time, contexts, the test case, the time spent
    \* in scoring, faithfulness_score), results, total_time, the returned dict
    e_n, e_i, e_pc, search_results, search_time, contexts, test_case,
    scoring_elapsed, faithfulness_score, results, total_time, e_return,
    \* what the evaluator's collaborators saw: the queries search_function
    \* was called with, and what each metric did for each query
    search_calls, scoring_log,
    \* BenchmarkRunner.run: its arguments, the generated documents and test
    \* queries, the position in run (the stage and the step inside a method's
    \* search_function), self.es_indexer and self.qdrant_indexer, self.results,
    \* self.indexing_results, the files save_results wrote, how the run ended
    num_documents, num_queries, documents, test_queries, r_pc, r_step,
    es_indexer, qdrant_indexer, run_results, indexing_results, files, r_outcome,
    \* what the run's collaborators saw: the backends whose connect() returned
    \* true, what became of each backend during index_data, the backends
    \* close() was called on, every event logged with the method that logged
    \* it, the stages entered, and the stage a user interrupt arrived in
    opened, index_outcome, closed, r_events, r_stages, interrupted_at,
    \* HybridSearchCostTracker: self.method_costs; the position in
    \* track_search_method, its arguments method_name and embedding_tokens,
    \* the number of times it has called search_function in this call, its
    \* local elapsed, what the last call gave its caller, the number of calls
    \* made, and for every call that returned what the caller saw of it
    method_costs, t_pc, t_name, t_tokens, t_searches, elapsed_time, t_return, t_calls,
    t_log

ledger == <<embedding_calls, vector_queries, lexical_queries, compute_time, cost_logs>>
caller == <<last_call, prev_call, ret_cost, ret_breakdown, history, was_reset>>
hybrid == <<h_queries, h_i, h_pc, keyword_results, vector_results, combined, h_trace>>
evaluator == <<e_n, e_i, e_pc, search_results, search_time, contexts, test_case,
               scoring_elapsed, faithfulness_score, results, total_time, e_return,
               search_calls, scoring_log>>
runner == <<num_documents, num_queries, documents, test_queries, r_pc, r_step,
            es_indexer, qdrant_indexer, run_results, indexing_results, files, r_outcome,
            opened, index_outcome, closed, r_events, r_stages, interrupted_at>>
tracker == <<method_costs, t_pc, t_name, t_tokens, t_searches, elapsed_time, t_return,
             t_calls, t_log>>
vars == <<ledger, caller, hybrid, evaluator, runner, tracker>>

\* ------------------------------------------------------ float arithmetic
Abs(x) == IF x < 0 THEN -x ELSE x

RECURSIVE Pow2(_)
Pow2(n) == IF n = 0 THEN 1 ELSE 2 * Pow2(n - 1)

\* the least magnitude that no longer fits the significand
Limit == Pow2(MantissaBits)

\* the spacing of the floats around a magnitude x, q being the spacing
\* around x * q
RECURSIVE QuantumFrom(_, _)
QuantumFrom(x, q) == IF x < Limit THEN q ELSE QuantumFrom(x \div 2, 2 * q)

Quantum(x) == QuantumFrom(Abs(x), 1)

\* the float nearest to the exact value x, ties to the even significand
Nearest(x) ==
    LET q == Quantum(x)
        m == Abs(x) \div q
        r == Abs(x) % q
        up == 2 * r > q \/ (2 * r = q /\ m % 2 = 1)
        n == IF up THEN (m + 1) * q ELSE m * q
    IN  IF x < 0 THEN -n ELSE n

\* the rounding of an operation's exact result (the result is worked out
\* once, then rounded)
Round(x) == CHOOSE n \in {Nearest(v) : v \in {x}} : TRUE

\* float + and *
FAdd(a, b) == Round(a + b)
FMul(a, b) == Round(a * b)

\* sum(...): the values added one after the other, from 0
RECURSIVE FSumFrom(_, _)
FSumFrom(acc, values) ==
    IF values = <<>> THEN acc ELSE FSumFrom(FAdd(acc, Head(values)), Tail(values))

FSum(values) == FSumFrom(0, values)

\* ------------------------------------------------------------ CostLogger
\* sum(log["cost"] for log in logs)
SumCost(logs) == FSum([i \in 1..Len(logs) |-> logs[i].cost])

OfType(logs, t) == SelectSeq(logs, LAMBDA log : log.type = t)

\* cost = (tokens / 1000) * self.embedding_cost_per_1k
EmbeddingCost(tokens) == Round((tokens * embedding_cost_per_1k) \div 1000)

\* a vector query priced at the base rate alone
VectorCost_NoSurcharge(t) == vector_db_cost_per_query

\* cost = self.vector_db_cost_per_query + (compute_time * 0.00001)
VectorCost(t) == FAdd(vector_db_cost_per_query, FMul(t, VectorTimeRate))

\* cost = self.lexical_db_cost_per_query + (latency * 0.000001)
LexicalCost(latency) == FAdd(lexical_db_cost_per_query, FMul(latency, LexicalTimeRate))

CostLoggerInit ==
    /\ embedding_calls = 0
    /\ vector_queries = 0
    /\ lexical_queries = 0
    /\ compute_time = 0
    /\ cost_logs = <<>>

log_embedding_call(tokens) ==
    /\ embedding_calls' = embedding_calls + 1
    /\ cost_logs' = Append(cost_logs,
            [type |-> "embedding", tokens |-> tokens, cost |-> EmbeddingCost(tokens)])
    /\ UNCHANGED <<vector_queries, lexical_queries, compute_time>>

log_vector_query(t) ==
    /\ vector_queries' = vector_queries + 1
    /\ compute_time' = FAdd(compute_time, t)
    /\ cost_logs' = Append(cost_logs,
            [type |-> "vector_query", compute_time |-> t, cost |-> VectorCost(t)])
    /\ UNCHANGED <<embedding_calls, lexical_queries>>

log_lexical_query(latency) ==
    /\ lexical_queries' = lexical_queries + 1
    /\ cost_logs' = Append(cost_logs,
            [type |-> "lexical_query", latency |-> latency, cost |-> LexicalCost(latency)])
    /\ UNCHANGED <<embedding_calls, vector_queries, compute_time>>

\* a total priced from the counters at the base rates
get_total_cost_FromCounters ==
    FAdd(FAdd(FMul(embedding_calls, EmbeddingCost(1000)),
              FMul(vector_queries, vector_db_cost_per_query)),
         FMul(lexical_queries, lexical_db_cost_per_query))

get_total_cost == SumCost(cost_logs)

get_cost_breakdown ==
    [total_cost |-> get_total_cost,
     embedding_cost |-> SumCost(OfType(cost_logs, "embedding")),
     vector_query_cost |-> SumCost(OfType(cost_logs, "vector_query")),
     lexical_query_cost |-> SumCost(OfType(cost_logs, "lexical_query")),
     embedding_calls |-> embedding_calls,
     vector_queries |-> vector_queries,
     lexical_queries |-> lexical_queries,
     total_compute_time |-> compute_time]

\* a reset that empties the log and leaves the counters as they are
reset_KeepsCounters ==
    /\ compute_time' = 0
    /\ cost_logs' = <<>>
    /\ UNCHANGED <<embedding_calls, vector_queries, lexical_queries>>

\* a reset that forgets the compute time
reset_KeepsComputeTime ==
    /\ embedding_calls' = 0
    /\ vector_queries' = 0
    /\ lexical_queries' = 0
    /\ cost_logs' = <<>>
    /\ UNCHANGED compute_time

reset ==
    /\ embedding_calls' = 0
    /\ vector_queries' = 0
    /\ lexical_queries' = 0
    /\ compute_time' = 0
    /\ cost_logs' = <<>>

\* ------------------------------------------- a caller driving a CostLogger
NoBreakdown == [total_cost |-> 0, embedding_cost |-> 0, vector_query_cost |-> 0,
                lexical_query_cost |-> 0, embedding_calls |-> 0, vector_queries |-> 0,
                lexical_queries |-> 0, total_compute_time |-> 0]

CallerInit ==
    /\ last_call = "__init__"
    /\ prev_call = "__init__"
    /\ ret_cost = 0
    /\ ret_breakdown = NoBreakdown
    /\ history = <<>>
    /\ was_reset = FALSE

Called(name, arg, cost) ==
    /\ last_call' = name
    /\ prev_call' = last_call
    /\ ret_cost' = cost
    /\ history' = Append(history, [call |-> name, arg |-> arg, cost |-> cost])
    /\ ret_breakdown' = NoBreakdown
    /\ UNCHANGED <<was_reset, hybrid, evaluator, runner, tracker>>

CallLogEmbedding ==
    \E tokens \in TokenInputs :
        /\ Len(cost_logs) < MaxLogs
        /\ log_embedding_call(tokens)
        /\ Called("log_embedding_call", tokens, EmbeddingCost(tokens))

CallLogVector ==
    \E t \in TimeInputs :
        /\ Len(cost_logs) < MaxLogs
        /\ log_vector_query(t)
        /\ Called("log_vector_query", t, VectorCost(t))

CallLogLexical ==
    \E latency \in TimeInputs :
        /\ Len(cost_logs) < MaxLogs
        /\ log_lexical_query(latency)
        /\ Called("log_lexical_query", latency, LexicalCost(latency))

CallGetTotalCost ==
    /\ last_call' = "get_total_cost"
    /\ prev_call' = last_call
    /\ ret_cost' = get_total_cost
    /\ ret_breakdown' = NoBreakdown
    /\ UNCHANGED <<ledger, history, was_reset, hybrid, evaluator, runner, tracker>>

\* a breakdown that flushes the event log once it has been reported
CallGetCostBreakdown_Flush ==
    /\ last_call' = "get_cost_breakdown"
    /\ prev_call' = last_call
    /\ ret_breakdown' = get_cost_breakdown
    /\ ret_cost' = 0
    /\ cost_logs' = <<>>
    /\ UNCHANGED <<embedding_calls, vector_queries, lexical_queries, compute_time,
                   history, was_reset, hybrid, evaluator, runner, tracker>>

CallGetCostBreakdown ==
    /\ last_call' = "get_cost_breakdown"
    /\ prev_call' = last_call
    /\ ret_breakdown' = get_cost_breakdown
    /\ ret_cost' = 0
    /\ UNCHANGED <<ledger, history, was_reset, hybrid, evaluator, runner, tracker>>

CallReset ==
    /\ reset
    /\ last_call' = "reset"
    /\ prev_call' = last_call
    /\ history' = <<>>
    /\ was_reset' = TRUE
    /\ ret_cost' = 0
    /\ ret_breakdown' = NoBreakdown
    /\ UNCHANGED <<hybrid, evaluator, runner, tracker>>

\* the two backends of a BenchmarkRunner
Backends == {"es", "qdrant"}

\* no BenchmarkRunner is running
RunnerIdle ==
    /\ num_documents = 0
    /\ num_queries = 0
    /\ documents = <<>>
    /\ test_queries = <<>>
    /\ r_pc = "idle"
    /\ r_step = "idle"
    /\ es_indexer = None
    /\ qdrant_indexer = None
    /\ run_results = <<>>
    /\ indexing_results = {}
    /\ files = <<>>
    /\ r_outcome = "idle"
    /\ opened = {}
    /\ index_outcome = [b \in Backends |-> "pending"]
    /\ closed = {}
    /\ r_events = <<>>
    /\ r_stages = <<>>
    /\ interrupted_at = None

\* HybridSearchCostTracker(): no method tracked yet
TrackerIdle ==
    /\ method_costs = <<>>
    /\ t_pc = "idle"
    /\ t_name = <<>>
    /\ t_tokens = 0
    /\ t_searches = 0
    /\ elapsed_time = 0
    /\ t_return = [returned |-> FALSE]
    /\ t_calls = 0
    /\ t_log = <<>>

\* no evaluate_search_method call is in progress
EvaluatorIdle ==
    /\ e_n = 0
    /\ e_i = 0
    /\ e_pc = "idle"
    /\ search_results = <<>>
    /\ search_time = 0
    /\ contexts = <<>>
    /\ test_case = None
    /\ scoring_elapsed = 0
    /\ faithfulness_score = 0
    /\ results = <<>>
    /\ total_time = 0
    /\ e_return = None
    /\ search_calls = <<>>
    /\ scoring_log = <<>>

\* ------------------------------------------------ hybrid search function
Min(a, b) == IF a < b THEN a ELSE b

\* hits[:n]
Prefix(hits, n) == SubSeq(hits, 1, Min(n, Len(hits)))

Ids(hits) == {hits[k].id : k \in 1..Len(hits)}

\* what QdrantIndexer.search and ElasticsearchIndexer.search build for a
\* stored document: the same id and payload, a score of the backend's kind
Document(d) == [id |-> d, title |-> <<"title", d>>, content |-> <<"content", d>>]
VectorHit(d) == [id |-> d, score |-> "cosine", content |-> Document(d)]
LexicalHit(d) == [id |-> d, score |-> "bm25", content |-> Document(d)]

\* the rankings a backend can return for limit n: at most n of its
\* documents, each at most once (a point id, an _id, names one document)
Rankings(n) ==
    UNION {{r \in [1..len -> 1..NumDocs] : \A a, b \in 1..len : a # b => r[a] # r[b]} :
            len \in 0..Min(n, NumDocs)}

VectorSearch(limit) == {[k \in 1..Len(r) |-> VectorHit(r[k])] : r \in Rankings(limit)}
LexicalSearch(size) == {[k \in 1..Len(r) |-> LexicalHit(r[k])] : r \in Rankings(size)}

\* for result in ...: if result["id"] not in seen_ids: append, add
RECURSIVE AddUnseen(_, _)
AddUnseen(acc, hits) ==
    IF hits = <<>> THEN acc
    ELSE IF Head(hits).id \in acc.seen_ids
         THEN AddUnseen(acc, Tail(hits))
         ELSE AddUnseen([combined |-> Append(acc.combined, Head(hits)),
                         seen_ids |-> acc.seen_ids \cup {Head(hits).id}],
                        Tail(hits))

\* a fusion that takes the keyword hits first
Combine_KeywordFirst(vector, keyword) ==
    Prefix(AddUnseen(AddUnseen([combined |-> <<>>, seen_ids |-> {}], keyword),
                     vector).combined, FusedLimit)

\* a fusion that does not look at seen_ids when it adds the keyword hits
Combine_NoDedup(vector, keyword) ==
    Prefix(AddUnseen([combined |-> <<>>, seen_ids |-> {}], vector).combined \o keyword,
           FusedLimit)

Combine(vector, keyword) ==
    Prefix(AddUnseen(AddUnseen([combined |-> <<>>, seen_ids |-> {}], vector),
                     keyword).combined, FusedLimit)

\* len(query.split()) of the k-th query generate_test_queries builds, for
\* k <= 10: "Find <part>" for odd k, "What is <part>?" for even k
QueryWords(k) == IF k % 2 = 1 THEN 2 ELSE 3

\* generate_test_queries(count), each query by its word count
GeneratedQueries(count) == [k \in 1..count |-> QueryWords(k)]

HybridIdle ==
    /\ h_queries = <<>>
    /\ h_i = 0
    /\ h_pc = "idle"
    /\ keyword_results = <<>>
    /\ vector_results = <<>>
    /\ combined = <<>>
    /\ h_trace = <<>>

\* cost_logger = CostLogger(); evaluate_search_method is about to iterate
HybridInit ==
    /\ CostLoggerInit
    /\ CallerInit
    /\ TrackerIdle
    /\ EvaluatorIdle
    /\ RunnerIdle
    /\ h_queries = GeneratedQueries(MaxQueries)
    /\ h_i = 0
    /\ h_pc = "returned"
    /\ keyword_results = <<>>
    /\ vector_results = <<>>
    /\ combined = <<>>
    /\ h_trace = <<>>

\* a search_function that does not log the embedding
HybridCall_NoEmbedding ==
    /\ h_pc = "returned"
    /\ h_i < Len(h_queries)
    /\ h_i' = h_i + 1
    /\ h_trace' = <<>>
    /\ keyword_results' = <<>>
    /\ vector_results' = <<>>
    /\ combined' = <<>>
    /\ h_pc' = "keyword"
    /\ UNCHANGED <<h_queries, ledger, caller, evaluator, runner, tracker>>

\* search_function(query) is called for the next query:
\* cost_logger.log_embedding_call(tokens=len(query.split()) * 100)
HybridCall ==
    /\ h_pc = "returned"
    /\ h_i < Len(h_queries)
    /\ h_i' = h_i + 1
    /\ log_embedding_call(h_queries[h_i + 1] * 100)
    /\ h_trace' = <<"log_embedding_call">>
    /\ keyword_results' = <<>>
    /\ vector_results' = <<>>
    /\ combined' = <<>>
    /\ h_pc' = "keyword"
    /\ UNCHANGED <<h_queries, caller, evaluator, runner, tracker>>

\* keyword_results = self.es_indexer.search(query, size=5);
\* cost_logger.log_lexical_query(keyword_time)
HybridKeyword ==
    /\ h_pc = "keyword"
    /\ \E hits \in LexicalSearch(SearchLimit), keyword_time \in ElapsedMs :
          /\ keyword_results' = hits
          /\ log_lexical_query(keyword_time)
    /\ h_trace' = h_trace \o <<"es_indexer.search", "log_lexical_query">>
    /\ h_pc' = "vector"
    /\ UNCHANGED <<h_queries, h_i, vector_results, combined, caller, evaluator, runner, tracker>>

\* vector_results = self.qdrant_indexer.search(query, limit=5);
\* cost_logger.log_vector_query(vector_time)
HybridVector ==
    /\ h_pc = "vector"
    /\ \E hits \in VectorSearch(SearchLimit), vector_time \in ElapsedMs :
          /\ vector_results' = hits
          /\ log_vector_query(vector_time)
    /\ h_trace' = h_trace \o <<"qdrant_indexer.search", "log_vector_query">>
    /\ h_pc' = "combine"
    /\ UNCHANGED <<h_queries, h_i, keyword_results, combined, caller, evaluator, runner, tracker>>

\* the two loops over vector_results and keyword_results; return combined[:10]
HybridCombine ==
    /\ h_pc = "combine"
    /\ combined' = Combine(vector_results, keyword_results)
    /\ h_trace' = Append(h_trace, "combine")
    /\ h_pc' = "returned"
    /\ UNCHANGED <<h_queries, h_i, keyword_results, vector_results, ledger, caller, evaluator, runner, tracker>>

HybridNext ==
    \/ HybridCall
    \/ HybridKeyword
    \/ HybridVector
    \/ HybridCombine

SpecHybrid == HybridInit /\ [][HybridNext]_vars

\* ------------------------------------------------------------- evaluator
\* a quotient a / b, kept as the pair
Ratio(a, b) == [num |-> a, den |-> b]

\* a mean that divides by len(results) whatever it is
Mean_NoGuard(values) == Ratio(FSum(values), Len(values))

\* sum(...) / len(results) if results else 0
Mean(values) == IF values # <<>> THEN Ratio(FSum(values), Len(values)) ELSE Ratio(0, 1)

\* the shapes the content of a hit may have: a stored document (body and
\* title), a mapping with a title and no body, a mapping with neither, a
\* value that is not a mapping, and no content at all
Shapes == <<"document", "title_only", "bare", "scalar", "missing">>

\* a value that is not a dict, kept as what str() makes of it
Scalar(d) == [str |-> <<"str", d>>]

\* isinstance(value, dict)
IsDict(value) == "str" \notin DOMAIN value

\* a hit for document d whose content has the shape d selects
ShapedHit(d) ==
    LET shape == Shapes[((d - 1) % Len(Shapes)) + 1]
    IN  IF shape = "document" THEN LexicalHit(d)
        ELSE IF shape = "title_only"
             THEN [id |-> d, score |-> "bm25", content |-> [id |-> d, title |-> <<"title", d>>]]
        ELSE IF shape = "bare" THEN [id |-> d, score |-> "bm25", content |-> [id |-> d]]
        ELSE IF shape = "scalar" THEN [id |-> d, score |-> "bm25", content |-> Scalar(d)]
        ELSE [id |-> d, score |-> "bm25"]

\* an extraction that prefers the title to the body
Text_PrefersTitle(result) ==
    LET content == IF "content" \in DOMAIN result THEN result.content ELSE <<>>
    IN  IF ~IsDict(content) THEN content.str
        ELSE IF "title" \in DOMAIN content THEN content.title
        ELSE IF "content" \in DOMAIN content THEN content.content
        ELSE <<>>

\* content = result.get("content", {}); if isinstance(content, dict):
\* content.get("content", content.get("title", "")) else: str(content)
\* (the empty string is the empty sequence)
Text(result) ==
    LET content == IF "content" \in DOMAIN result THEN result.content ELSE <<>>
    IN  IF ~IsDict(content) THEN content.str
        ELSE IF "content" \in DOMAIN content THEN content.content
        ELSE IF "title" \in DOMAIN content THEN content.title
        ELSE <<>>

\* contexts built from every hit, not from search_results[:5]
ExtractContexts_All(hits) == [k \in 1..Len(hits) |-> Text(hits[k])]

\* the contexts of search_results[:5]
ExtractContexts(hits) == [k \in 1..Len(Prefix(hits, TopContexts)) |-> Text(hits[k])]

\* the test queries a caller may pass for the k-th query: with and without
\* an expected answer
TestQueries(k) == {[query |-> k], [query |-> k, expected |-> <<"expected">>]}

\* expected = test_query.get("expected", None); evaluate_query: the
\* expected output defaults to the first context, or to a fixed sentinel
\* when there is none
ActualOutput(test_query, retrieved_contexts) ==
    IF "expected" \in DOMAIN test_query THEN test_query.expected
    ELSE IF retrieved_contexts # <<>> THEN retrieved_contexts[1]
    ELSE <<"No relevant information found.">>

\* the hit lists the search capability may return: none, one, as many as
\* are read, and more; the longer ones hold every shape, and start with a
\* document, a title or a mapping with neither
SearchOutputs ==
    {[k \in 1..len |-> ShapedHit(k)] : len \in {0, 1}}
    \cup {[k \in 1..len |-> ShapedHit(first + k - 1)] :
             len \in {TopContexts, MaxHits}, first \in 1..3}

\* what a metric's measure() may do: raise (no score), or report a score
ScoringOutcomes ==
    {[raised |-> TRUE, score |-> 0]} \cup {[raised |-> FALSE, score |-> x] : x \in Scores}

\* evaluate_search_method(test_queries, search_function, method_name) is
\* entered: results = [], total_time = 0
EvaluatorInit ==
    /\ CostLoggerInit
    /\ CallerInit
    /\ TrackerIdle
    /\ HybridIdle
    /\ RunnerIdle
    /\ e_n \in 0..MaxQueries
    /\ e_i = 0
    /\ e_pc = "loop"
    /\ search_results = <<>>
    /\ search_time = 0
    /\ contexts = <<>>
    /\ test_case = None
    /\ scoring_elapsed = 0
    /\ faithfulness_score = 0
    /\ results = <<>>
    /\ total_time = 0
    /\ e_return = None
    /\ search_calls = <<>>
    /\ scoring_log = <<>>

\* an iteration that calls search_function a second time for the same query
EvalSearch_SearchesTwice ==
    /\ e_pc = "loop"
    /\ e_i < e_n
    /\ \E hits \in SearchOutputs, elapsed \in ElapsedMs, test_query \in TestQueries(e_i + 1) :
          /\ search_results' = hits
          /\ search_time' = elapsed
          /\ contexts' = ExtractContexts(hits)
          /\ test_case' = [input |-> test_query.query,
                           actual_output |-> ActualOutput(test_query, ExtractContexts(hits)),
                           retrieval_context |-> ExtractContexts(hits)]
    /\ search_calls' = search_calls \o <<e_i + 1, e_i + 1>>
    /\ scoring_elapsed' = 0
    /\ e_pc' = "faithfulness"
    /\ UNCHANGED <<e_n, e_i, faithfulness_score, results, total_time, e_return, scoring_log,
                   ledger, caller, hybrid, runner, tracker>>

\* one iteration up to the first scoring call: search_function(query), the
\* contexts of the top hits, and evaluate_query's test case
EvalSearch ==
    /\ e_pc = "loop"
    /\ e_i < e_n
    /\ \E hits \in SearchOutputs, elapsed \in ElapsedMs, test_query \in TestQueries(e_i + 1) :
          /\ search_results' = hits
          /\ search_time' = elapsed
          /\ contexts' = ExtractContexts(hits)
          /\ test_case' = [input |-> test_query.query,
                           actual_output |-> ActualOutput(test_query, ExtractContexts(hits)),
                           retrieval_context |-> ExtractContexts(hits)]
    /\ search_calls' = Append(search_calls, e_i + 1)
    /\ scoring_elapsed' = 0
    /\ e_pc' = "faithfulness"
    /\ UNCHANGED <<e_n, e_i, faithfulness_score, results, total_time, e_return, scoring_log,
                   ledger, caller, hybrid, runner, tracker>>

\* try: self.faithfulness_metric.measure(test_case) ... except: 0.0
EvalFaithfulness ==
    /\ e_pc = "faithfulness"
    /\ \E outcome \in ScoringOutcomes, elapsed \in ScoringMs :
          /\ faithfulness_score' = IF outcome.raised THEN 0 ELSE outcome.score
          /\ scoring_log' = Append(scoring_log, [faithfulness |-> outcome])
          /\ scoring_elapsed' = FAdd(scoring_elapsed, elapsed)
    /\ e_pc' = "relevancy"
    /\ UNCHANGED <<e_n, e_i, search_results, search_time, contexts, test_case, results,
                   total_time, e_return, search_calls, ledger, caller, hybrid, runner, tracker>>

\* the rest of the iteration, taking what relevancy_metric.measure did, the
\* time it took and the scores to record
FinishQuery(outcome, elapsed, faithfulness, relevancy) ==
    LET evaluation_time == FAdd(scoring_elapsed, elapsed)
        eval_result == [query |-> test_case.input,
                        faithfulness_score |-> faithfulness,
                        relevancy_score |-> relevancy,
                        evaluation_time |-> evaluation_time,
                        num_contexts |-> Len(contexts),
                        search_time |-> search_time]
    IN  /\ scoring_log' = [scoring_log EXCEPT ![e_i + 1] =
                              [faithfulness |-> @.faithfulness, relevancy |-> outcome]]
        /\ results' = Append(results, eval_result)
        /\ total_time' = FAdd(total_time, FAdd(search_time, evaluation_time))
        /\ e_i' = e_i + 1
        /\ e_pc' = "loop"
        \* the locals of the iteration are dead from here on
        /\ search_results' = <<>>
        /\ search_time' = 0
        /\ contexts' = <<>>
        /\ test_case' = None
        /\ scoring_elapsed' = 0
        /\ faithfulness_score' = 0
        /\ UNCHANGED <<e_n, e_return, search_calls, ledger, caller, hybrid, runner, tracker>>

\* a relevancy failure that zeroes both scores
EvalRelevancy_ZeroesBoth ==
    /\ e_pc = "relevancy"
    /\ \E outcome \in ScoringOutcomes, elapsed \in ScoringMs :
          FinishQuery(outcome, elapsed,
                      IF outcome.raised THEN 0 ELSE faithfulness_score,
                      IF outcome.raised THEN 0 ELSE outcome.score)

\* try: self.relevancy_metric.measure(test_case) ... except: 0.0; the
\* returned dict, search_time, results.append, total_time
EvalRelevancy ==
    /\ e_pc = "relevancy"
    /\ \E outcome \in ScoringOutcomes, elapsed \in ScoringMs :
          FinishQuery(outcome, elapsed, faithfulness_score,
                      IF outcome.raised THEN 0 ELSE outcome.score)

Column(rs, field) == [k \in 1..Len(rs) |-> rs[k][field]]

\* averages that leave the queries with a 0.0 score out of the divisor
EvalReturn_SkipsZeroScores ==
    /\ e_pc = "loop"
    /\ e_i = e_n
    /\ e_return' = [method_name |-> "method_name",
                    num_queries |-> e_n,
                    avg_faithfulness |-> Mean(SelectSeq(Column(results, "faithfulness_score"), LAMBDA v : v # 0)),
                    avg_relevancy |-> Mean(SelectSeq(Column(results, "relevancy_score"), LAMBDA v : v # 0)),
                    avg_search_time |-> Mean(Column(results, "search_time")),
                    total_time |-> total_time,
                    detailed_results |-> results]
    /\ e_pc' = "done"
    /\ UNCHANGED <<e_n, e_i, search_results, search_time, contexts, test_case,
                   scoring_elapsed, faithfulness_score, results, total_time,
                   search_calls, scoring_log, ledger, caller, hybrid, runner, tracker>>

\* the loop is over: the aggregated metrics and the returned dict
EvalReturn ==
    /\ e_pc = "loop"
    /\ e_i = e_n
    /\ e_return' = [method_name |-> "method_name",
                    num_queries |-> e_n,
                    avg_faithfulness |-> Mean(Column(results, "faithfulness_score")),
                    avg_relevancy |-> Mean(Column(results, "relevancy_score")),
                    avg_search_time |-> Mean(Column(results, "search_time")),
                    total_time |-> total_time,
                    detailed_results |-> results]
    /\ e_pc' = "done"
    /\ UNCHANGED <<e_n, e_i, search_results, search_time, contexts, test_case,
                   scoring_elapsed, faithfulness_score, results, total_time,
                   search_calls, scoring_log, ledger, caller, hybrid, runner, tracker>>

EvalNext ==
    \/ EvalSearch
    \/ EvalFaithfulness
    \/ EvalRelevancy
    \/ EvalReturn

SpecEval == EvaluatorInit /\ [][EvalNext]_vars

\* ------------------------------------- the hybrid benchmark, hit by hit
\* the hits a backend returns for `len` consecutive documents from `first`
VectorWindow(first, len) == [k \in 1..len |-> VectorHit(first + k - 1)]
LexicalWindow(first, len) == [k \in 1..len |-> LexicalHit(first + k - 1)]

\* what qdrant_indexer.search(query, limit=5) may return: fewer hits than
\* the limit, or as many
HybridVectorOutputs == {VectorWindow(1, len) : len \in {2, SearchLimit}}

\* what es_indexer.search(query, size=5) may return: nothing, the documents
\* the vector backend ranks first, or documents it does not return
HybridLexicalOutputs ==
    {LexicalWindow(first, len) : first \in {1, SearchLimit + 1}, len \in {0, SearchLimit}}

\* the time a vector search of the hybrid benchmark takes
VectorMs == {50}

\* evaluate_search_method(test_queries, search_function, "Hybrid (Keyword +
\* Vector)") is entered with a new CostLogger
HybridEvalInit ==
    /\ CostLoggerInit
    /\ CallerInit
    /\ TrackerIdle
    /\ RunnerIdle
    /\ e_n \in 0..MaxQueries
    /\ h_queries = GeneratedQueries(e_n)
    /\ h_i = 0
    /\ h_pc = "returned"
    /\ keyword_results = <<>>
    /\ vector_results = <<>>
    /\ combined = <<>>
    /\ h_trace = <<>>
    /\ e_i = 0
    /\ e_pc = "loop"
    /\ search_results = <<>>
    /\ search_time = 0
    /\ contexts = <<>>
    /\ test_case = None
    /\ scoring_elapsed = 0
    /\ faithfulness_score = 0
    /\ results = <<>>
    /\ total_time = 0
    /\ e_return = None
    /\ search_calls = <<>>
    /\ scoring_log = <<>>

\* the three events one call of the hybrid search_function logs
HybridEvents(tokens, keyword_time, vector_time) ==
    <<[type |-> "embedding", tokens |-> tokens, cost |-> EmbeddingCost(tokens)],
      [type |-> "lexical_query", latency |-> keyword_time,
       cost |-> LexicalCost(keyword_time)],
      [type |-> "vector_query", compute_time |-> vector_time,
       cost |-> VectorCost(vector_time)]>>

\* one iteration up to the first scoring call, taking the hits the hybrid
\* search_function fused from those of the two backends
HybridSearched(keyword, vector, fused, keyword_time, vector_time, test_query) ==
    /\ h_i' = e_i + 1
    /\ keyword_results' = keyword
    /\ vector_results' = vector
    /\ combined' = fused
    /\ h_trace' = <<"log_embedding_call", "es_indexer.search", "log_lexical_query",
                    "qdrant_indexer.search", "log_vector_query", "combine">>
    /\ embedding_calls' = embedding_calls + 1
    /\ lexical_queries' = lexical_queries + 1
    /\ vector_queries' = vector_queries + 1
    /\ compute_time' = FAdd(compute_time, vector_time)
    /\ cost_logs' = cost_logs \o HybridEvents(h_queries[e_i + 1] * 100,
                                              keyword_time, vector_time)
    /\ search_results' = fused
    /\ search_time' = FAdd(keyword_time, vector_time)
    /\ contexts' = ExtractContexts(fused)
    /\ test_case' = [input |-> test_query.query,
                     actual_output |-> ActualOutput(test_query, ExtractContexts(fused)),
                     retrieval_context |-> ExtractContexts(fused)]
    /\ search_calls' = Append(search_calls, e_i + 1)
    /\ scoring_elapsed' = 0
    /\ e_pc' = "faithfulness"
    /\ UNCHANGED <<h_queries, h_pc, e_n, e_i, faithfulness_score, results, total_time,
                   e_return, scoring_log, caller, runner, tracker>>

\* a search_function that fuses the keyword hits before the vector hits
HybridEvalSearch_KeywordFirst ==
    /\ e_pc = "loop"
    /\ e_i < e_n
    /\ \E keyword \in HybridLexicalOutputs, vector \in HybridVectorOutputs,
          keyword_time \in ElapsedMs, vector_time \in VectorMs,
          test_query \in TestQueries(e_i + 1) :
            HybridSearched(keyword, vector, Combine(keyword, vector),
                           keyword_time, vector_time, test_query)

\* search_results = search_function(query) of run_hybrid_search_benchmark:
\* the embedding is logged, the lexical and the vector backend are searched
\* and logged, the hits are fused; then the contexts of the top hits and
\* evaluate_query's test case
HybridEvalSearch ==
    /\ e_pc = "loop"
    /\ e_i < e_n
    /\ \E keyword \in HybridLexicalOutputs, vector \in HybridVectorOutputs,
          keyword_time \in ElapsedMs, vector_time \in VectorMs,
          test_query \in TestQueries(e_i + 1) :
            HybridSearched(keyword, vector, Combine(vector, keyword),
                           keyword_time, vector_time, test_query)

HybridEvalNext ==
    \/ HybridEvalSearch
    \/ EvalFaithfulness
    \/ EvalRelevancy
    \/ EvalReturn

SpecHybridEval == HybridEvalInit /\ [][HybridEvalNext]_vars

\* -------------------------------------------------------- specifications
Init ==
    /\ CostLoggerInit
    /\ CallerInit
    /\ TrackerIdle
    /\ HybridIdle
    /\ EvaluatorIdle
    /\ RunnerIdle

Next ==
    \/ CallLogEmbedding
    \/ CallLogVector
    \/ CallLogLexical
    \/ CallGetTotalCost
    \/ CallGetCostBreakdown
    \/ CallReset

Spec == Init /\ [][Next]_vars

\* ----------------------------------------------------------- sample data
\* the decimal digits of n
RECURSIVE Digits(_)
Digits(n) == IF n < 10 THEN <<n>> ELSE Append(Digits(n \div 10), n % 10)

RECURSIVE ZeroPad(_, _)
ZeroPad(ds, width) == IF Len(ds) >= width THEN ds ELSE ZeroPad(<<0>> \o ds, width)

\* f"{n:04d}", f"{n:06d}": at least width digits, zero-padded on the left
Format(n, width) == ZeroPad(Digits(n), width)

\* a text is the sequence of its words; text.split() is the text
categories ==
    << <<"Technical", "Documentation">>, <<"Product", "Specifications">>,
       <<"Customer", "Support">>, <<"Knowledge", "Base">>, <<"API", "Documentation">> >>

products == <<"Widget-A-2000", "Component-B-X100", "Module-C-Pro", "Sensor-D-Ultra",
              "Controller-E-Max">>

part_numbers == products

\* for i in range(size): the document built for i = k - 1
generate_sample_dataset(size) ==
    [k \in 1..size |->
        LET i == k - 1
            product == products[(i % Len(products)) + 1]
            category == categories[(i % Len(categories)) + 1]
        IN  [id |-> <<"DOC-", Format(i + 1, 4)>>,
             title |-> <<product, "-">> \o category,
             content |-> <<product, "Overview:", "SKU:", <<"SKU-", Format(i + 1, 6)>>,
                           5 + (i % 20), 10 + (i % 50), 100 + (i % 500), 1 + (i % 5)>>,
             category |-> category,
             metadata |-> [sku |-> <<"SKU-", Format(i + 1, 6)>>,
                           part_number |-> product,
                           price |-> 100 + (i * 10),
                           in_stock |-> (i % 3 # 0)]]]

TestQuery(query, type, expected) == [query |-> query, type |-> type, expected |-> expected]

\* for part in part_numbers: "Find <part>", then "What is <part>?"
PartQueries ==
    [k \in 1..(2 * Len(part_numbers)) |->
        LET part == part_numbers[(k + 1) \div 2]
        IN  IF k % 2 = 1
            THEN TestQuery(<<"Find", part>>, "exact_match",
                           <<"Technical", "information", "about", part>>)
            ELSE TestQuery(<<"What", "is", <<part, "?">> >>, "semantic",
                           <<"Product", "overview", "and", "specifications", "for", part>>)]

\* for i in range(10): sku_num = (i * 10) + 1
SkuQueries ==
    [k \in 1..10 |->
        LET sku == <<"SKU-", Format(((k - 1) * 10) + 1, 6)>>
        IN  TestQuery(<<sku>>, "exact_match", <<"Product", "with", sku>>)]

nl_questions ==
    << TestQuery(<<"How", "do", "I", "install", "the", "widget?">>, "semantic",
                 <<"Installation", "instructions", "and", "setup", "guide">>),
       TestQuery(<<"What", "are", "the", "power", "requirements?">>, "semantic",
                 <<"Power", "consumption", "specifications">>),
       TestQuery(<<"Temperature", "specifications?">>, "semantic",
                 <<"Operating", "temperature", "range">>),
       TestQuery(<<"What", "is", "the", "warranty", "period?">>, "semantic",
                 <<"Warranty", "information">>),
       TestQuery(<<"Which", "products", "are", "suitable", "for", "industrial", "use?">>,
                 "semantic", <<"Industrial-grade", "products">>),
       TestQuery(<<"How", "to", "troubleshoot", "connection", "issues?">>, "semantic",
                 <<"Troubleshooting", "guide">>),
       TestQuery(<<"What", "are", "the", "dimensions?">>, "semantic",
                 <<"Physical", "dimensions", "and", "size">>),
       TestQuery(<<"Compatible", "products?">>, "semantic",
                 <<"Compatibility", "information">>),
       TestQuery(<<"How", "much", "does", "it", "weigh?">>, "semantic",
                 <<"Weight", "specifications">>),
       TestQuery(<<"What", "features", "are", "available?">>, "semantic",
                 <<"Product", "features", "and", "capabilities">>) >>

tech_queries ==
    << TestQuery(<<"high", "temperature", "operation">>, "semantic",
                 <<"Products", "with", "high", "temperature", "range">>),
       TestQuery(<<"low", "power", "consumption">>, "semantic",
                 <<"Energy-efficient", "products">>),
       TestQuery(<<"compact", "size">>, "semantic",
                 <<"Small", "form", "factor", "products">>),
       TestQuery(<<"heavy", "duty", "applications">>, "semantic",
                 <<"Industrial-grade", "components">>),
       TestQuery(<<"real-time", "monitoring">>, "semantic",
                 <<"Products", "with", "monitoring", "capabilities">>) >>

\* for category in categories: "Show me all <category>"
CategoryQueries ==
    [k \in 1..Len(categories) |->
        TestQuery(<<"Show", "me", "all">> \o categories[k], "category",
                  <<"Documents", "in">> \o categories[k] \o <<"category">>)]

mixed_queries ==
    << TestQuery(<<"widget", "specifications", "and", "features">>, "mixed",
                 <<"Widget", "product", "specifications">>),
       TestQuery(<<"component", "installation", "guide">>, "mixed",
                 <<"Installation", "documentation", "for", "components">>),
       TestQuery(<<"sensor", "technical", "documentation">>, "mixed",
                 <<"Technical", "docs", "for", "sensors">>),
       TestQuery(<<"controller", "API", "reference">>, "mixed",
                 <<"API", "documentation", "for", "controllers">>),
       TestQuery(<<"module", "troubleshooting">>, "mixed",
                 <<"Troubleshooting", "guides", "for", "modules">>) >>

\* queries, as it stands before the padding loop
BuiltinQueries ==
    PartQueries \o SkuQueries \o nl_questions \o tech_queries \o CategoryQueries
        \o mixed_queries

\* while len(queries) < count: queries.append(general query number len(queries))
RECURSIVE Pad(_, _)
Pad(queries, count) ==
    IF Len(queries) < count
    THEN Pad(Append(queries,
                    TestQuery(<<"General", "query", "about", "product", Len(queries)>>,
                              "general", <<"General", "product", "information">>)),
             count)
    ELSE queries

\* a generator that does not pad
generate_test_queries_NoPad(count) == Prefix(BuiltinQueries, count)

\* return queries[:count], for count >= 0
generate_test_queries(count) == Prefix(Pad(BuiltinQueries, count), count)

\* generate_sample_dataset(num_documents), generate_test_queries(num_queries)
\* are about to be called
DataInit ==
    /\ CostLoggerInit
    /\ CallerInit
    /\ TrackerIdle
    /\ HybridIdle
    /\ EvaluatorIdle
    /\ num_documents \in 0..MaxDocuments
    /\ num_queries \in 0..MaxCount
    /\ documents = <<>>
    /\ test_queries = <<>>
    /\ r_pc = "documents"
    /\ r_step = "idle"
    /\ es_indexer = None
    /\ qdrant_indexer = None
    /\ run_results = <<>>
    /\ indexing_results = {}
    /\ files = <<>>
    /\ r_outcome = "idle"
    /\ opened = {}
    /\ index_outcome = [b \in Backends |-> "pending"]
    /\ closed = {}
    /\ r_events = <<>>
    /\ r_stages = <<>>
    /\ interrupted_at = None

DataDocuments ==
    /\ r_pc = "documents"
    /\ documents' = generate_sample_dataset(num_documents)
    /\ r_pc' = "queries"
    /\ UNCHANGED <<num_documents, num_queries, test_queries, r_step, es_indexer,
                   qdrant_indexer, run_results, indexing_results, files, r_outcome, opened,
                   index_outcome, closed, r_events, r_stages, interrupted_at,
                   ledger, caller, hybrid, evaluator, tracker>>

DataQueries ==
    /\ r_pc = "queries"
    /\ test_queries' = generate_test_queries(num_queries)
    /\ r_pc' = "generated"
    /\ UNCHANGED <<num_documents, num_queries, documents, r_step, es_indexer,
                   qdrant_indexer, run_results, indexing_results, files, r_outcome, opened,
                   index_outcome, closed, r_events, r_stages, interrupted_at,
                   ledger, caller, hybrid, evaluator, tracker>>

DataNext ==
    \/ DataDocuments
    \/ DataQueries

SpecData == DataInit /\ [][DataNext]_vars

\* ------------------------------------------------------- BenchmarkRunner
Methods == {"keyword", "vector", "hybrid"}

MethodName(m) ==
    IF m = "keyword" THEN "Elasticsearch (Keyword)"
    ELSE IF m = "vector" THEN "Qdrant (Vector)"
    ELSE "Hybrid (Keyword + Vector)"

\* a check that lets no method run unless both backends are there
Available_NeedsBoth(m) == es_indexer # None /\ qdrant_indexer # None

\* if self.es_indexer is None / if self.qdrant_indexer is None /
\* if self.es_indexer is None or self.qdrant_indexer is None: return
Available(m) ==
    IF m = "keyword" THEN es_indexer # None
    ELSE IF m = "vector" THEN qdrant_indexer # None
    ELSE es_indexer # None /\ qdrant_indexer # None

\* a run that benchmarks the vector method before the keyword method
AfterStage_VectorFirst(pc) ==
    IF pc = "qd_index" THEN "vector"
    ELSE IF pc = "vector" THEN "keyword"
    ELSE IF pc = "keyword" THEN "hybrid"
    ELSE "save"

\* the statement of run() that follows a benchmark, or index_data
AfterStage(pc) ==
    IF pc = "qd_index" THEN "keyword"
    ELSE IF pc = "keyword" THEN "vector"
    ELSE IF pc = "vector" THEN "hybrid"
    ELSE "save"

\* the stage of the run a position belongs to
Stage(pc) ==
    IF pc \in {"es_connect", "es_index", "qd_connect", "qd_index"} THEN "indexing"
    ELSE IF pc \in {"save", "save_indexing"} THEN "persisting"
    ELSE pc

\* control moves to pc
Enter(pc) ==
    /\ r_pc' = pc
    /\ r_stages' = IF r_stages # <<>> /\ r_stages[Len(r_stages)] = Stage(pc)
                   THEN r_stages ELSE Append(r_stages, Stage(pc))

\* a hybrid search_function that goes to the backends without logging an
\* embedding
FirstStep_NoEmbedding(m) == IF m = "vector" THEN "embed" ELSE "lexical"

\* the first statement of a method's search_function
FirstStep(m) == IF m = "keyword" THEN "lexical" ELSE "embed"

\* the for loop of evaluate_search_method, having evaluated n queries
LoopStep(m, n) == IF n < Len(test_queries) THEN FirstStep(m) ELSE "return"

\* runner.run(num_documents, num_queries) is entered
RunInit ==
    /\ CostLoggerInit
    /\ CallerInit
    /\ TrackerIdle
    /\ HybridIdle
    /\ EvaluatorIdle
    /\ num_documents = NumDocs
    /\ num_queries \in 0..MaxQueries
    /\ documents = <<>>
    /\ test_queries = <<>>
    /\ r_pc = "setup"
    /\ r_step = "idle"
    /\ es_indexer = None
    /\ qdrant_indexer = None
    /\ run_results = <<>>
    /\ indexing_results = {}
    /\ files = <<>>
    /\ r_outcome = "running"
    /\ opened = {}
    /\ index_outcome = [b \in Backends |-> "pending"]
    /\ closed = {}
    /\ r_events = <<>>
    /\ r_stages = <<"setup">>
    /\ interrupted_at = None

\* setup_indexers(); generate_sample_dataset; generate_test_queries
RunSetup ==
    /\ r_pc = "setup"
    /\ es_indexer' = "ElasticsearchIndexer"
    /\ qdrant_indexer' = "QdrantIndexer"
    /\ documents' = generate_sample_dataset(num_documents)
    /\ test_queries' = generate_test_queries(num_queries)
    /\ Enter("es_connect")
    /\ UNCHANGED <<num_documents, num_queries, r_step, run_results, indexing_results,
                   files, r_outcome, opened, index_outcome, closed, r_events,
                   interrupted_at, ledger, caller, hybrid, evaluator, tracker>>

\* if self.es_indexer.connect(): ... else: self.es_indexer = None
RunEsConnect ==
    /\ r_pc = "es_connect"
    /\ \E connected \in BOOLEAN :
          IF connected
          THEN /\ opened' = opened \cup {"es"}
               /\ Enter("es_index")
               /\ UNCHANGED <<es_indexer, index_outcome>>
          ELSE /\ es_indexer' = None
               /\ index_outcome' = [index_outcome EXCEPT !["es"] = "connect_false"]
               /\ Enter("qd_connect")
               /\ UNCHANGED opened
    /\ UNCHANGED <<num_documents, num_queries, documents, test_queries, r_step,
                   qdrant_indexer, run_results, indexing_results, files, r_outcome,
                   closed, r_events, interrupted_at, ledger, caller, hybrid, evaluator, tracker>>

\* create_index(); index_documents(documents); indexing_results[...] = stats
\* except Exception: self.es_indexer = None
RunEsIndex ==
    /\ r_pc = "es_index"
    /\ \E raised \in BOOLEAN :
          IF raised
          THEN /\ es_indexer' = None
               /\ index_outcome' = [index_outcome EXCEPT !["es"] = "raised"]
               /\ UNCHANGED indexing_results
          ELSE /\ indexing_results' = indexing_results \cup {"Elasticsearch"}
               /\ index_outcome' = [index_outcome EXCEPT !["es"] = "indexed"]
               /\ UNCHANGED es_indexer
    /\ Enter("qd_connect")
    /\ UNCHANGED <<num_documents, num_queries, documents, test_queries, r_step,
                   qdrant_indexer, run_results, files, r_outcome, opened,
                   closed, r_events, interrupted_at, ledger, caller, hybrid, evaluator, tracker>>

\* if self.qdrant_indexer.connect(): ... else: self.qdrant_indexer = None
RunQdrantConnect ==
    /\ r_pc = "qd_connect"
    /\ \E connected \in BOOLEAN :
          IF connected
          THEN /\ opened' = opened \cup {"qdrant"}
               /\ Enter("qd_index")
               /\ UNCHANGED <<qdrant_indexer, index_outcome, r_step>>
          ELSE /\ qdrant_indexer' = None
               /\ index_outcome' = [index_outcome EXCEPT !["qdrant"] = "connect_false"]
               /\ Enter(AfterStage("qd_index"))
               /\ r_step' = "enter"
               /\ UNCHANGED opened
    /\ UNCHANGED <<num_documents, num_queries, documents, test_queries,
                   es_indexer, run_results, indexing_results, files, r_outcome,
                   closed, r_events, interrupted_at, ledger, caller, hybrid, evaluator, tracker>>

\* an index_data whose Qdrant block lets the exception out
RunQdrantIndex_Propagates ==
    /\ r_pc = "qd_index"
    /\ \E raised \in BOOLEAN :
          IF raised
          THEN /\ index_outcome' = [index_outcome EXCEPT !["qdrant"] = "raised"]
               /\ r_outcome' = "failed"
               /\ Enter("cleanup")
               /\ UNCHANGED <<indexing_results, r_step>>
          ELSE /\ indexing_results' = indexing_results \cup {"Qdrant"}
               /\ index_outcome' = [index_outcome EXCEPT !["qdrant"] = "indexed"]
               /\ Enter(AfterStage("qd_index"))
               /\ r_step' = "enter"
               /\ UNCHANGED r_outcome
    /\ UNCHANGED <<num_documents, num_queries, documents, test_queries, qdrant_indexer,
                   es_indexer, run_results, files, opened,
                   closed, r_events, interrupted_at, ledger, caller, hybrid, evaluator, tracker>>

\* create_collection(); index_documents(documents); indexing_results[...] =
\* stats  except Exception: self.qdrant_indexer = None
RunQdrantIndex ==
    /\ r_pc = "qd_index"
    /\ \E raised \in BOOLEAN :
          IF raised
          THEN /\ qdrant_indexer' = None
               /\ index_outcome' = [index_outcome EXCEPT !["qdrant"] = "raised"]
               /\ UNCHANGED indexing_results
          ELSE /\ indexing_results' = indexing_results \cup {"Qdrant"}
               /\ index_outcome' = [index_outcome EXCEPT !["qdrant"] = "indexed"]
               /\ UNCHANGED qdrant_indexer
    /\ Enter(AfterStage("qd_index"))
    /\ r_step' = "enter"
    /\ UNCHANGED <<num_documents, num_queries, documents, test_queries,
                   es_indexer, run_results, files, r_outcome, opened,
                   closed, r_events, interrupted_at, ledger, caller, hybrid, evaluator, tracker>>

\* the evaluator state a run does not touch
eval_rest == <<e_pc, search_results, contexts, test_case, scoring_elapsed,
               faithfulness_score, e_return, search_calls, scoring_log>>

\* what a run leaves alone while a method is benchmarked
run_rest == <<num_documents, num_queries, documents, test_queries, es_indexer,
              qdrant_indexer, indexing_results, files, opened, index_outcome, closed,
              interrupted_at, caller, hybrid, eval_rest, tracker>>

\* CostLogger(): a ledger of its own
NewCostLogger ==
    /\ embedding_calls' = 0
    /\ vector_queries' = 0
    /\ lexical_queries' = 0
    /\ compute_time' = 0
    /\ cost_logs' = <<>>

\* run_*_benchmark returns at once: the backend it needs is None
RunMethodSkip(m) ==
    /\ r_pc = m
    /\ r_step = "enter"
    /\ ~Available(m)
    /\ Enter(AfterStage(m))
    /\ UNCHANGED <<r_step, run_results, r_outcome, r_events, ledger, e_n, e_i, results,
                   total_time, search_time, run_rest>>

\* a benchmark that goes on with the ledger of the method before it
RunMethodEnter_SharedLedger(m) ==
    /\ r_pc = m
    /\ r_step = "enter"
    /\ Available(m)
    /\ UNCHANGED ledger
    /\ e_n' = Len(test_queries)
    /\ e_i' = 0
    /\ results' = <<>>
    /\ total_time' = 0
    /\ search_time' = 0
    /\ r_step' = LoopStep(m, 0)
    /\ UNCHANGED <<r_pc, r_stages, run_results, r_outcome, r_events, run_rest>>

\* cost_logger = CostLogger(); evaluate_search_method is entered:
\* results = [], total_time = 0
RunMethodEnter(m) ==
    /\ r_pc = m
    /\ r_step = "enter"
    /\ Available(m)
    /\ NewCostLogger
    /\ e_n' = Len(test_queries)
    /\ e_i' = 0
    /\ results' = <<>>
    /\ total_time' = 0
    /\ search_time' = 0
    /\ r_step' = LoopStep(m, 0)
    /\ UNCHANGED <<r_pc, r_stages, run_results, r_outcome, r_events, run_rest>>

\* cost_logger.log_embedding_call(tokens=len(query.split()) * 100)
RunEmbed(m) ==
    /\ r_pc = m
    /\ r_step = "embed"
    /\ LET tokens == Len(test_queries[e_i + 1].query) * 100
       IN  /\ log_embedding_call(tokens)
           /\ r_events' = Append(r_events, [method |-> m, type |-> "embedding",
                                            cost |-> EmbeddingCost(tokens)])
    /\ r_step' = IF m = "vector" THEN "vector" ELSE "lexical"
    /\ UNCHANGED <<r_pc, r_stages, run_results, r_outcome, e_n, e_i, results, total_time,
                   search_time, run_rest>>

\* self.es_indexer.search(query ...) returns;
\* cost_logger.log_lexical_query(elapsed)
RunLexical(m) ==
    /\ r_pc = m
    /\ r_step = "lexical"
    /\ \E elapsed \in ElapsedMs :
          /\ log_lexical_query(elapsed)
          /\ r_events' = Append(r_events, [method |-> m, type |-> "lexical_query",
                                           cost |-> LexicalCost(elapsed)])
          /\ search_time' = FAdd(search_time, elapsed)
    /\ r_step' = IF m = "keyword" THEN "score" ELSE "vector"
    /\ UNCHANGED <<r_pc, r_stages, run_results, r_outcome, e_n, e_i, results, total_time,
                   run_rest>>

\* self.qdrant_indexer.search(query ...) returns;
\* cost_logger.log_vector_query(elapsed)
RunVector(m) ==
    /\ r_pc = m
    /\ r_step = "vector"
    /\ \E elapsed \in ElapsedMs :
          /\ log_vector_query(elapsed)
          /\ r_events' = Append(r_events, [method |-> m, type |-> "vector_query",
                                           cost |-> VectorCost(elapsed)])
          /\ search_time' = FAdd(search_time, elapsed)
    /\ r_step' = "score"
    /\ UNCHANGED <<r_pc, r_stages, run_results, r_outcome, e_n, e_i, results, total_time,
                   run_rest>>

\* a backend's search raises: nothing between search_function and run()
\* catches it; except Exception in run() prints it, and finally cleans up
RunSearchRaises(m) ==
    /\ r_pc = m
    /\ r_step \in {"lexical", "vector"}
    /\ r_outcome' = "failed"
    /\ Enter("cleanup")
    /\ UNCHANGED <<r_step, run_results, r_events, ledger, e_n, e_i, results, total_time,
                   search_time, run_rest>>

\* search_function has returned: the query is evaluated and appended to
\* results (its two scores and its scoring time are not kept here)
RunScore(m) ==
    /\ r_pc = m
    /\ r_step = "score"
    /\ results' = Append(results, [query |-> test_queries[e_i + 1].query,
                                   search_time |-> search_time])
    /\ total_time' = FAdd(total_time, search_time)
    /\ search_time' = 0
    /\ e_i' = e_i + 1
    /\ r_step' = LoopStep(m, e_i + 1)
    /\ UNCHANGED <<r_pc, r_stages, run_results, r_outcome, r_events, ledger, e_n, run_rest>>

\* a benchmark that read the total before the last event was recorded
RunMethodReturn_StaleTotal(m) ==
    /\ r_pc = m
    /\ r_step = "return"
    /\ run_results' = Append(run_results,
            [method_name |-> MethodName(m),
             num_queries |-> Len(test_queries),
             avg_search_time |-> Mean(Column(results, "search_time")),
             total_time |-> total_time,
             detailed_results |-> results,
             cost_breakdown |-> get_cost_breakdown,
             total_cost |-> SumCost(Prefix(cost_logs, Len(cost_logs) - 1))])
    /\ Enter(AfterStage(m))
    /\ r_step' = "enter"
    /\ UNCHANGED <<r_outcome, r_events, ledger, e_n, e_i, results, total_time, search_time,
                   run_rest>>

\* evaluate_search_method returns; cost_breakdown and total_cost are
\* attached; self.results.append(eval_results)
RunMethodReturn(m) ==
    /\ r_pc = m
    /\ r_step = "return"
    /\ run_results' = Append(run_results,
            [method_name |-> MethodName(m),
             num_queries |-> Len(test_queries),
             avg_search_time |-> Mean(Column(results, "search_time")),
             total_time |-> total_time,
             detailed_results |-> results,
             cost_breakdown |-> get_cost_breakdown,
             total_cost |-> get_total_cost])
    /\ Enter(AfterStage(m))
    /\ r_step' = "enter"
    /\ UNCHANGED <<r_outcome, r_events, ledger, e_n, e_i, results, total_time, search_time,
                   run_rest>>

\* save_results: json.dump(self.results, f) into benchmark_results.json
RunSaveBenchmark ==
    /\ r_pc = "save"
    /\ files' = Append(files, [name |-> "data/benchmark_results.json",
                               content |-> run_results])
    /\ Enter("save_indexing")
    /\ UNCHANGED <<num_documents, num_queries, documents, test_queries, r_step, es_indexer,
                   qdrant_indexer, run_results, indexing_results, r_outcome, opened,
                   index_outcome, closed, r_events, interrupted_at,
                   ledger, caller, hybrid, evaluator, tracker>>

\* json.dump(self.indexing_results, f) into indexing_results.json; the try
\* block of run() is left normally
RunSaveIndexing ==
    /\ r_pc = "save_indexing"
    /\ files' = Append(files, [name |-> "data/indexing_results.json",
                               content |-> indexing_results])
    /\ r_outcome' = "completed"
    /\ Enter("cleanup")
    /\ UNCHANGED <<num_documents, num_queries, documents, test_queries, r_step, es_indexer,
                   qdrant_indexer, run_results, indexing_results, opened,
                   index_outcome, closed, r_events, interrupted_at,
                   ledger, caller, hybrid, evaluator, tracker>>

\* an interrupt handler that saves what has been computed so far
RunInterrupt_Saves ==
    /\ r_pc \in {"setup", "es_connect", "es_index", "qd_connect", "qd_index",
                 "keyword", "vector", "hybrid", "save", "save_indexing"}
    /\ r_outcome' = "interrupted"
    /\ interrupted_at' = r_pc
    /\ files' = Append(files, [name |-> "data/benchmark_results.json",
                               content |-> run_results])
    /\ Enter("cleanup")
    /\ UNCHANGED <<num_documents, num_queries, documents, test_queries, r_step, es_indexer,
                   qdrant_indexer, run_results, indexing_results, opened,
                   index_outcome, closed, r_events, ledger, caller, hybrid, evaluator, tracker>>

\* KeyboardInterrupt arrives somewhere in the try block of run():
\* except KeyboardInterrupt prints, finally cleans up
RunInterrupt ==
    /\ r_pc \in {"setup", "es_connect", "es_index", "qd_connect", "qd_index",
                 "keyword", "vector", "hybrid", "save", "save_indexing"}
    /\ r_outcome' = "interrupted"
    /\ interrupted_at' = r_pc
    /\ Enter("cleanup")
    /\ UNCHANGED <<num_documents, num_queries, documents, test_queries, r_step, es_indexer,
                   qdrant_indexer, run_results, indexing_results, files, opened,
                   index_outcome, closed, r_events, ledger, caller, hybrid, evaluator, tracker>>

\* cleanup(): if self.es_indexer: close(); if self.qdrant_indexer: close()
RunCleanup ==
    /\ r_pc = "cleanup"
    /\ closed' = {b \in Backends : IF b = "es" THEN es_indexer # None
                                   ELSE qdrant_indexer # None}
    /\ Enter("done")
    /\ UNCHANGED <<num_documents, num_queries, documents, test_queries, r_step, es_indexer,
                   qdrant_indexer, run_results, indexing_results, files, r_outcome, opened,
                   index_outcome, r_events, interrupted_at,
                   ledger, caller, hybrid, evaluator, tracker>>

RunNext ==
    \/ RunSetup
    \/ RunEsConnect
    \/ RunEsIndex
    \/ RunQdrantConnect
    \/ RunQdrantIndex
    \/ \E m \in Methods : RunMethodSkip(m)
    \/ \E m \in Methods : RunMethodEnter(m)
    \/ \E m \in {"vector", "hybrid"} : RunEmbed(m)
    \/ \E m \in {"keyword", "hybrid"} : RunLexical(m)
    \/ \E m \in {"vector", "hybrid"} : RunVector(m)
    \/ \E m \in Methods : RunSearchRaises(m)
    \/ \E m \in Methods : RunScore(m)
    \/ \E m \in Methods : RunMethodReturn(m)
    \/ RunSaveBenchmark
    \/ RunSaveIndexing
    \/ RunInterrupt
    \/ RunCleanup

SpecRun == RunInit /\ [][RunNext]_vars

\* the statements of a run: a single thread executes them one after the
\* other, so a statement that can be taken is taken; nothing obliges a
\* search to raise or the user to interrupt
RunFairness ==
    /\ WF_vars(RunSetup)
    /\ WF_vars(RunEsConnect)
    /\ WF_vars(RunEsIndex)
    /\ WF_vars(RunQdrantConnect)
    /\ WF_vars(RunQdrantIndex)
    /\ \A m \in Methods :
          /\ WF_vars(RunMethodSkip(m))
          /\ WF_vars(RunMethodEnter(m))
          /\ WF_vars(RunEmbed(m))
          /\ WF_vars(RunLexical(m))
          /\ WF_vars(RunVector(m))
          /\ WF_vars(RunScore(m))
          /\ WF_vars(RunMethodReturn(m))
    /\ WF_vars(RunSaveBenchmark)
    /\ WF_vars(RunSaveIndexing)
    /\ WF_vars(RunCleanup)

SpecRunLive == SpecRun /\ RunFairness

\* ----------------------------------------------- HybridSearchCostTracker
\* a method name is the sequence of its characters
ElasticsearchKeyword ==
    <<"E", "l", "a", "s", "t", "i", "c", "s", "e", "a", "r", "c", "h", " ", "(", "K",
      "e", "y", "w", "o", "r", "d", ")">>
QdrantVector ==
    <<"Q", "d", "r", "a", "n", "t", " ", "(", "V", "e", "c", "t", "o", "r", ")">>
HybridKeywordVector ==
    <<"H", "y", "b", "r", "i", "d", " ", "(", "K", "e", "y", "w", "o", "r", "d", " ",
      "+", " ", "V", "e", "c", "t", "o", "r", ")">>
UpperQdrant ==
    <<"Q", "D", "R", "A", "N", "T">>
Bm25 ==
    <<"B", "M", "2", "5">>
Hybrid ==
    <<"H", "y", "b", "r", "i", "d">>

\* the names a caller may track a method under: the three names
\* run_benchmark.py gives its methods, a name in capitals, and names that
\* hold none of the patterns
TrackedNames ==
    {ElasticsearchKeyword, QdrantVector, HybridKeywordVector, UpperQdrant, Bm25, Hybrid}

UpperCase ==
    <<"A", "B", "C", "D", "E", "F", "G", "H", "I", "J", "K", "L", "M", "N", "O", "P",
      "Q", "R", "S", "T", "U", "V", "W", "X", "Y", "Z">>
LowerCase ==
    <<"a", "b", "c", "d", "e", "f", "g", "h", "i", "j", "k", "l", "m", "n", "o", "p",
      "q", "r", "s", "t", "u", "v", "w", "x", "y", "z">>

\* str.lower(), character by character
Lower(name) ==
    [i \in 1..Len(name) |->
        IF \E k \in 1..Len(UpperCase) : UpperCase[k] = name[i]
        THEN LowerCase[CHOOSE k \in 1..Len(UpperCase) : UpperCase[k] = name[i]]
        ELSE name[i]]

\* pattern in name
Contains(name, pattern) ==
    \E i \in 0..(Len(name) - Len(pattern)) : SubSeq(name, i + 1, i + Len(pattern)) = pattern

\* the patterns track_search_method looks for
VectorPattern ==
    <<"v", "e", "c", "t", "o", "r">>
QdrantPattern ==
    <<"q", "d", "r", "a", "n", "t">>
KeywordPattern ==
    <<"k", "e", "y", "w", "o", "r", "d">>
ElasticsearchPattern ==
    <<"e", "l", "a", "s", "t", "i", "c", "s", "e", "a", "r", "c", "h">>

\* a selection that looks for the keyword patterns first
Accounting_KeywordFirst(name) ==
    IF Contains(Lower(name), KeywordPattern) \/ Contains(Lower(name), ElasticsearchPattern) THEN "lexical"
    ELSE IF Contains(Lower(name), VectorPattern) \/ Contains(Lower(name), QdrantPattern) THEN "vector"
    ELSE "none"

\* if "vector" in method_name.lower() or "qdrant" in method_name.lower():
\* elif "keyword" in method_name.lower() or "elasticsearch" in ...: else:
Accounting(name) ==
    IF Contains(Lower(name), VectorPattern) \/ Contains(Lower(name), QdrantPattern) THEN "vector"
    ELSE IF Contains(Lower(name), KeywordPattern) \/ Contains(Lower(name), ElasticsearchPattern)
         THEN "lexical"
    ELSE "none"

\* track_search_method(method_name, search_function, query,
\* embedding_tokens) is entered: method_logger = CostLogger()
TrackEnter ==
    /\ t_pc = "idle"
    /\ t_calls < MaxTracks
    /\ \E name \in TrackedNames, tokens \in {1000} :
          /\ t_name' = name
          /\ t_tokens' = tokens
          /\ t_pc' = IF Accounting(name) = "vector" THEN "embed" ELSE "search"
    /\ NewCostLogger
    /\ t_searches' = 0
    /\ t_calls' = t_calls + 1
    /\ UNCHANGED <<method_costs, elapsed_time, t_return, t_log,
                   caller, hybrid, evaluator, runner>>

\* method_logger.log_embedding_call(embedding_tokens)
TrackEmbed ==
    /\ t_pc = "embed"
    /\ log_embedding_call(t_tokens)
    /\ t_pc' = "search"
    /\ UNCHANGED <<method_costs, t_name, t_tokens, t_searches, elapsed_time, t_return,
                   t_calls, t_log, caller, hybrid, evaluator, runner>>

\* results = search_function(query); elapsed = time.time() - start_time;
\* the query is logged as the branch has it
TrackSearch ==
    /\ t_pc = "search"
    /\ t_searches' = t_searches + 1
    /\ \E elapsed \in ElapsedMs :
          /\ IF Accounting(t_name) = "vector" THEN log_vector_query(elapsed)
             ELSE IF Accounting(t_name) = "lexical" THEN log_lexical_query(elapsed)
             ELSE UNCHANGED ledger
          /\ elapsed_time' = elapsed
    /\ t_pc' = "store"
    /\ UNCHANGED <<method_costs, t_name, t_tokens, t_return, t_calls, t_log,
                   caller, hybrid, evaluator, runner>>

\* search_function raises: track_search_method catches nothing, so nothing
\* is stored and nothing returned
TrackSearchRaises ==
    /\ t_pc = "search"
    /\ t_searches' = t_searches + 1
    /\ t_return' = [returned |-> FALSE]
    /\ t_pc' = "idle"
    /\ UNCHANGED <<method_costs, t_name, t_tokens, elapsed_time, t_calls, t_log,
                   ledger, caller, hybrid, evaluator, runner>>

\* d[key] = value
Store(d, key, value) == [k \in DOMAIN d \cup {key} |-> IF k = key THEN value ELSE d[k]]

\* self.method_costs[method_name] = method_logger.get_cost_breakdown();
\* return {"method_name", "results", "cost_breakdown", "execution_time"}
TrackStore ==
    /\ t_pc = "store"
    /\ method_costs' = Store(method_costs, t_name, get_cost_breakdown)
    /\ t_return' = [returned |-> TRUE,
                    method_name |-> t_name,
                    cost_breakdown |-> get_cost_breakdown,
                    execution_time |-> elapsed_time]
    /\ t_log' = Append(t_log, [method_name |-> t_name,
                                cost_breakdown |-> get_cost_breakdown,
                                searches |-> t_searches])
    /\ t_pc' = "idle"
    /\ UNCHANGED <<t_name, t_tokens, t_searches, elapsed_time, t_calls,
                   ledger, caller, hybrid, evaluator, runner>>

TrackNext ==
    \/ TrackEnter
    \/ TrackEmbed
    \/ TrackSearch
    \/ TrackSearchRaises
    \/ TrackStore

SpecTrack == Init /\ [][TrackNext]_vars

\* ================================================================ claims
\* the argument of a logged event: tokens, compute_time or latency
Magnitude(log) ==
    IF log.type = "embedding" THEN log.tokens
    ELSE IF log.type = "vector_query" THEN log.compute_time
    ELSE log.latency

LogTypes == [i \in 1..Len(cost_logs) |-> cost_logs[i].type]

CountCalls(name) == Len(SelectSeq(history, LAMBDA h : h.call = name))

\* C1: in every state of a CostLogger, whatever the interleaving of the three
\* kinds of log_* calls, get_total_cost() equals embedding_cost +
\* vector_query_cost + lexical_query_cost of get_cost_breakdown(), and the
\* breakdown's total_cost field equals that sum too (stated for the logs
\* whose arguments are all non-negative).
C1_TotalIsSumOfSubtotals ==
    (\A i \in 1..Len(cost_logs) : Magnitude(cost_logs[i]) >= 0) =>
        LET b == get_cost_breakdown
            parts == FAdd(FAdd(b.embedding_cost, b.vector_query_cost),
                          b.lexical_query_cost)
        IN  /\ get_total_cost = parts
            /\ b.total_cost = parts

\* C2: a negative token count or time is rejected: no event is appended for
\* it and the event log never holds an event with a negative argument or a
\* negative cost.
C2_NegativeInputRejected ==
    \A i \in 1..Len(cost_logs) :
        /\ Magnitude(cost_logs[i]) >= 0
        /\ cost_logs[i].cost >= 0

\* C8: right after reset() the total cost is 0 and the breakdown is all
\* zero (subtotals, counts, compute time); and once a reset has happened the
\* ledger accounts exactly the calls made since, as a fresh ledger would.
C8_ResetClears ==
    LET b == get_cost_breakdown
    IN  /\ last_call = "reset" =>
              /\ get_total_cost = 0
              /\ b = NoBreakdown
        /\ was_reset =>
              /\ Len(cost_logs) = Len(history)
              /\ b.embedding_calls = CountCalls("log_embedding_call")
              /\ b.vector_queries = CountCalls("log_vector_query")
              /\ b.lexical_queries = CountCalls("log_lexical_query")
              /\ b.total_compute_time =
                    FSum([i \in 1..Len(history) |->
                            IF history[i].call = "log_vector_query"
                            THEN history[i].arg ELSE 0])
              /\ b.total_cost = SumCost(history)

\* reset has just been called on a ledger whose last event was a vector
\* query
C8_Witness ==
    /\ last_call = "reset"
    /\ was_reset
    /\ prev_call = "log_vector_query"

\* C9: get_total_cost() and get_cost_breakdown() change no field of the
\* CostLogger, and a get_cost_breakdown() directly following another one
\* returns the same value.
C9_ReadOnly ==
    [][ /\ last_call' \in {"get_total_cost", "get_cost_breakdown"}
            => UNCHANGED ledger
        /\ (last_call = "get_cost_breakdown" /\ last_call' = "get_cost_breakdown")
            => ret_breakdown' = ret_breakdown ]_vars

\* two get_cost_breakdown() calls in a row on a ledger holding events
C9_Witness ==
    /\ prev_call = "get_cost_breakdown"
    /\ last_call = "get_cost_breakdown"
    /\ Len(cost_logs) >= 2
    /\ ret_breakdown = get_cost_breakdown

\* C10: on a fresh or just-reset CostLogger, get_total_cost() equals the sum
\* of the costs the log_* calls returned (added in the order of the calls),
\* in whatever order the calls were made, and a call with a positive
\* argument returned a positive cost.
C10_TotalIsSumOfReturned ==
    /\ get_total_cost = SumCost(history)
    /\ last_call = "get_total_cost" => ret_cost = SumCost(history)
    /\ \A i \in 1..Len(history) : history[i].arg > 0 => history[i].cost > 0

\* three calls with positive arguments, then get_total_cost()
C10_Witness ==
    /\ last_call = "get_total_cost"
    /\ Len(history) = 3
    /\ \A i \in 1..3 : history[i].arg > 0
    /\ ret_cost > 0

\* C3: the hybrid search function returns the vector hits in their rank
\* order, followed by the lexical hits whose id no vector hit carries, in
\* their rank order, cut to at most 10 hits; vector [A,B,C] and lexical
\* [B,D,E] give [A,B,C,D,E].
C3_FusionOrder ==
    /\ (h_pc = "returned" /\ h_i > 0) =>
          combined = Prefix(vector_results \o
                            SelectSeq(keyword_results,
                                      LAMBDA r : r.id \notin Ids(vector_results)),
                            FusedLimit)
    /\ Combine(<<VectorHit(1), VectorHit(2), VectorHit(3)>>,
               <<LexicalHit(2), LexicalHit(4), LexicalHit(5)>>)
         = <<VectorHit(1), VectorHit(2), VectorHit(3), LexicalHit(4), LexicalHit(5)>>
    /\ Combine([k \in 1..6 |-> VectorHit(k)], [k \in 1..5 |-> LexicalHit(k + 6)])
         = [k \in 1..10 |-> IF k <= 6 THEN VectorHit(k) ELSE LexicalHit(k)]

\* a call returned where the first lexical hit repeats a vector hit and a
\* later lexical hit is new
C3_Witness ==
    /\ h_pc = "returned"
    /\ Len(vector_results) = 2
    /\ Len(keyword_results) >= 2
    /\ keyword_results[1].id = vector_results[2].id
    /\ keyword_results[2].id \notin Ids(vector_results)
    /\ Len(combined) = 3

\* C4: the fused list holds no id twice, its length is min(10, number of
\* distinct ids over both hit lists), and for an id both backends returned
\* the hit kept is the vector backend's.
C4_FusionDedup ==
    (h_pc = "returned" /\ h_i > 0) =>
        /\ \A a, b \in 1..Len(combined) : a # b => combined[a].id # combined[b].id
        /\ Len(combined) =
              Min(FusedLimit, Cardinality(Ids(vector_results) \cup Ids(keyword_results)))
        /\ \A k \in 1..Len(combined) :
              combined[k].id \in Ids(vector_results) =>
                  \E v \in 1..Len(vector_results) : combined[k] = vector_results[v]

\* a call returned where the backends share an id and each has one the
\* other lacks
C4_Witness ==
    /\ h_pc = "returned"
    /\ Ids(vector_results) \cap Ids(keyword_results) # {}
    /\ Ids(keyword_results) \ Ids(vector_results) # {}
    /\ Ids(vector_results) \ Ids(keyword_results) # {}

\* the events the ledger holds for the query search_function last served
LastQueryEvents ==
    [k \in 1..3 |-> cost_logs[3 * (h_i - 1) + k].type]

\* C5 (as stated): for each hybrid query the embedding is recorded, then the
\* vector backend is searched and its event recorded, then the lexical
\* backend is searched and its event recorded, then the results are fused;
\* the event log of the query reads embedding, vector_query, lexical_query.
C5_VectorThenLexical ==
    (h_pc = "returned" /\ h_i > 0) =>
        /\ h_trace = <<"log_embedding_call", "qdrant_indexer.search", "log_vector_query",
                       "es_indexer.search", "log_lexical_query", "combine">>
        /\ LastQueryEvents = <<"embedding", "vector_query", "lexical_query">>

\* C5 (amended): for each hybrid query the embedding is recorded, then the
\* lexical backend is searched and its event recorded, then the vector
\* backend is searched and its event recorded, and only then are the
\* results fused; the event log of the query reads embedding,
\* lexical_query, vector_query.
C5_LexicalThenVector ==
    /\ (h_pc = "returned" /\ h_i > 0) =>
          /\ Len(cost_logs) = 3 * h_i
          /\ h_trace = <<"log_embedding_call", "es_indexer.search", "log_lexical_query",
                         "qdrant_indexer.search", "log_vector_query", "combine">>
          /\ LastQueryEvents = <<"embedding", "lexical_query", "vector_query">>
    /\ (h_pc = "combine") => Len(cost_logs) = 3 * h_i

\* the second hybrid query of a pass has returned
C5_Witness ==
    /\ h_pc = "returned"
    /\ h_i = 2
    /\ Len(cost_logs) = 6

\* the score evaluate_query is to record for what a metric did
Recorded(outcome) == IF outcome.raised THEN 0 ELSE outcome.score

\* C6: when a faithfulness or relevancy scoring call fails, the returned
\* result still has one entry per input query; the failed dimension of that
\* query is 0.0 and every other score, of the same query and of the other
\* queries, is the score its metric reported.
C6_ScoringFailureIsolated ==
    e_pc = "done" =>
        /\ e_return.num_queries = e_n
        /\ Len(e_return.detailed_results) = e_n
        /\ Len(scoring_log) = e_n
        /\ \A k \in 1..e_n :
              /\ e_return.detailed_results[k].query = k
              /\ e_return.detailed_results[k].faithfulness_score
                    = Recorded(scoring_log[k].faithfulness)
              /\ e_return.detailed_results[k].relevancy_score
                    = Recorded(scoring_log[k].relevancy)

\* a finished evaluation whose first query failed on relevancy while its
\* faithfulness scored 1.0, and whose second query scored 1.0 on relevancy
C6_Witness ==
    /\ e_pc = "done"
    /\ e_n >= 2
    /\ scoring_log[1].relevancy.raised
    /\ scoring_log[1].faithfulness = [raised |-> FALSE, score |-> 1]
    /\ scoring_log[2].relevancy = [raised |-> FALSE, score |-> 1]
    /\ e_return.detailed_results[1].faithfulness_score = 1

\* C7: with an empty query list evaluate_search_method never calls the
\* search capability, divides by nothing, and returns num_queries = 0, the
\* three averages 0, total_time 0 and an empty detailed_results.
C7_EmptyQueryList ==
    (e_pc = "done" /\ e_n = 0) =>
        /\ search_calls = <<>>
        /\ scoring_log = <<>>
        /\ e_return.num_queries = 0
        /\ \A avg \in {e_return.avg_faithfulness, e_return.avg_relevancy,
                       e_return.avg_search_time} : avg.den # 0 /\ avg.num = 0
        /\ e_return.total_time = 0
        /\ e_return.detailed_results = <<>>

\* evaluate_search_method has returned for an empty query list
C7_Witness ==
    /\ e_pc = "done"
    /\ e_n = 0
    /\ e_i = 0
    /\ results = <<>>

\* the method a result of the run belongs to
MethodOf(result) == CHOOSE m \in Methods : MethodName(m) = result.method_name

\* the events search calls of method m recorded, as log entries
EventsOf(m) == SelectSeq(r_events, LAMBDA e : e.method = m)

CountType(events, t) == Len(SelectSeq(events, LAMBDA e : e.type = t))

\* C11: the cost_breakdown and total_cost attached to a method's result
\* count exactly the events that method's own search calls recorded during
\* its pass (one lexical query per query for keyword, one embedding and one
\* vector query for vector, all three for hybrid) and no event recorded while
\* another method was benchmarked.
C11_OwnLedger ==
    \A k \in 1..Len(run_results) :
        LET r == run_results[k]
            m == MethodOf(r)
            own == EventsOf(m)
            n == r.num_queries
        IN  /\ r.cost_breakdown.embedding_calls = CountType(own, "embedding")
            /\ r.cost_breakdown.vector_queries = CountType(own, "vector_query")
            /\ r.cost_breakdown.lexical_queries = CountType(own, "lexical_query")
            /\ r.cost_breakdown.embedding_calls = (IF m = "keyword" THEN 0 ELSE n)
            /\ r.cost_breakdown.vector_queries = (IF m = "keyword" THEN 0 ELSE n)
            /\ r.cost_breakdown.lexical_queries = (IF m = "vector" THEN 0 ELSE n)
            /\ r.cost_breakdown.total_cost = SumCost(own)
            /\ r.total_cost = SumCost(own)

\* all three methods were benchmarked over two queries or more, and the
\* hybrid result is attached
C11_Witness ==
    /\ Len(run_results) = 3
    /\ num_queries >= 2
    /\ run_results[1].cost_breakdown.lexical_queries = num_queries
    /\ run_results[3].cost_breakdown.lexical_queries = num_queries
    /\ run_results[3].total_cost > run_results[2].total_cost

\* the method names of a list of results
MethodNames(rs) == {rs[k].method_name : k \in 1..Len(rs)}

\* a backend is available when it connected and was indexed
Indexed(b) == index_outcome[b] = "indexed"

\* C12: in a run that completes, the result list (and the persisted one)
\* holds a keyword result iff the lexical backend is available, a vector
\* result iff the vector backend is available, and a hybrid result iff both
\* are; losing one backend never suppresses the other's own method.
C12_MethodsFollowBackends ==
    (r_pc = "done" /\ r_outcome = "completed") =>
        /\ files[1].content = run_results
        /\ MethodName("keyword") \in MethodNames(run_results) <=> Indexed("es")
        /\ MethodName("vector") \in MethodNames(run_results) <=> Indexed("qdrant")
        /\ MethodName("hybrid") \in MethodNames(run_results)
              <=> (Indexed("es") /\ Indexed("qdrant"))
        /\ Len(run_results) = Cardinality(MethodNames(run_results))

\* a completed run in which the lexical backend did not connect and the
\* vector method alone was benchmarked, over two queries or more
C12_Witness ==
    /\ r_pc = "done"
    /\ r_outcome = "completed"
    /\ index_outcome["es"] = "connect_false"
    /\ Indexed("qdrant")
    /\ num_queries >= 2
    /\ MethodNames(run_results) = {MethodName("vector")}

\* a backend that index_data gave up on
Lost(b) == index_outcome[b] \in {"connect_false", "raised"}

\* the backends a method searches
Needs(m) ==
    IF m = "keyword" THEN {"es"} ELSE IF m = "vector" THEN {"qdrant"} ELSE Backends

\* the stage the run was in when it went to cleanup
StageLeft ==
    IF \E i \in 2..Len(r_stages) : r_stages[i] = "cleanup"
    THEN r_stages[(CHOOSE i \in 2..Len(r_stages) : r_stages[i] = "cleanup") - 1]
    ELSE None

\* a search call raised, or the user interrupted the run
SearchFailed == r_outcome = "failed" /\ StageLeft \in Methods
Disturbed == SearchFailed \/ interrupted_at # None

\* C13: a backend whose connect() returns false, or whose index creation or
\* indexing raises, is lost without failing the run: no method that needs it
\* is ever benchmarked, and unless a search call fails or the user
\* interrupts, the run goes on to benchmark every method whose backends are
\* there, persists both files and completes.
C13_LostBackendNotFatal ==
    /\ [](\A m \in Methods :
            (\E b \in Needs(m) : Lost(b)) => MethodName(m) \notin MethodNames(run_results))
    /\ []((r_pc = "done" /\ ~Disturbed /\ \E b \in Backends : Lost(b)) =>
            /\ r_outcome = "completed"
            /\ Len(files) = 2
            /\ \A m \in Methods :
                  (\A b \in Needs(m) : Indexed(b))
                      => MethodName(m) \in MethodNames(files[1].content))
    /\ (\E b \in Backends : Lost(b))
          ~> (Disturbed \/ (r_pc = "done" /\ r_outcome = "completed"
                              /\ r_stages[Len(r_stages) - 2] = "persisting"))

\* a completed run in which indexing into the lexical backend raised, the
\* vector method was benchmarked and both files were written
C13_Witness ==
    /\ r_pc = "done"
    /\ r_outcome = "completed"
    /\ index_outcome["es"] = "raised"
    /\ Indexed("qdrant")
    /\ MethodNames(files[1].content) = {MethodName("vector")}
    /\ Len(files) = 2

\* C14: when a backend search call fails during a method's benchmark, the
\* run is not aborted: that method yields no result, the call is not
\* retried, the methods after it whose backends are there are still
\* benchmarked, and the results are persisted.
C14_SearchFailureNotFatal ==
    (r_pc = "done" /\ SearchFailed) =>
        /\ MethodName(StageLeft) \notin MethodNames(run_results)
        /\ Len(files) = 2
        /\ \A m \in Methods \ {StageLeft} :
              (\A b \in Needs(m) : Indexed(b))
                  => MethodName(m) \in MethodNames(files[1].content)

\* C15: however a run ends, close() has been called on every backend whose
\* connect() returned true in that run, also on one that connected and then
\* failed in index creation or indexing.
C15_EveryOpenedClosed ==
    r_pc = "done" => opened \subseteq closed

MeasuredZero == [raised |-> FALSE, score |-> 0]

\* C17: a query evaluation produced when a scoring call failed differs from
\* the one produced when that scoring call returned 0.0 for the same query
\* and contexts.
C17_FailureDistinguishable ==
    \A k \in 1..Len(results) :
        /\ scoring_log[k].faithfulness.raised =>
              results[k] # [results[k] EXCEPT !.faithfulness_score = Recorded(MeasuredZero)]
        /\ scoring_log[k].relevancy.raised =>
              results[k] # [results[k] EXCEPT !.relevancy_score = Recorded(MeasuredZero)]

\* the price of a call in exact arithmetic, times 1000
ExactPrice1000(h) ==
    IF h.call = "log_embedding_call" THEN h.arg * embedding_cost_per_1k
    ELSE IF h.call = "log_vector_query"
         THEN 1000 * (vector_db_cost_per_query + h.arg * VectorTimeRate)
    ELSE 1000 * (lexical_db_cost_per_query + h.arg * LexicalTimeRate)

\* the price of a call as the float expression of its method evaluates it
FloatPrice(h) ==
    IF h.call = "log_embedding_call" THEN Round((h.arg * embedding_cost_per_1k) \div 1000)
    ELSE IF h.call = "log_vector_query"
         THEN FAdd(vector_db_cost_per_query, FMul(h.arg, VectorTimeRate))
    ELSE FAdd(lexical_db_cost_per_query, FMul(h.arg, LexicalTimeRate))

\* C18 (as stated): each log_* call returns exactly the priced cost of its
\* input, (t / 1000) * embedding_rate, vector_base_rate + c *
\* vector_time_multiplier, lexical_base_rate + l * lexical_time_multiplier,
\* as a number.
C18_ReturnsExactPrice ==
    \A i \in 1..Len(history) : 1000 * history[i].cost = ExactPrice1000(history[i])

\* C18 (amended): each log_* call returns, and logs as the cost of its
\* event, the priced cost of its input as floating-point arithmetic
\* evaluates the formula, each operation rounded; it is the exact price
\* where no operation rounds, as for 1000 tokens at rate 0.0001 (cost
\* 0.0001) and never further from it than the roundings allow.
C18_ReturnsFloatPrice ==
    /\ \A i \in 1..Len(history) :
          /\ history[i].cost = FloatPrice(history[i])
          /\ cost_logs[i].cost = history[i].cost
          /\ (history[i].call = "log_embedding_call" /\ history[i].arg = 1000)
                => history[i].cost = embedding_cost_per_1k
          /\ Abs(1000 * history[i].cost - ExactPrice1000(history[i]))
                <= 1000 * Quantum(history[i].cost)
    /\ (last_call \in {"log_embedding_call", "log_vector_query", "log_lexical_query"})
          => ret_cost = FloatPrice(history[Len(history)])

\* a vector query has just returned a cost that is not the exact price of
\* its compute time
C18_Witness ==
    /\ last_call = "log_vector_query"
    /\ history[Len(history)].arg = 639
    /\ ret_cost = history[Len(history)].cost
    /\ 1000 * ret_cost # ExactPrice1000(history[Len(history)])

\* C19: for every requested count n >= 0, generate_sample_dataset(n) returns
\* exactly n documents, each with an id and a content field, no two with the
\* same id, and generate_test_queries(n) returns exactly n queries, each with
\* a query field, be n below or above the number of built-in queries.
C19_GeneratedCounts ==
    /\ r_pc \in {"queries", "generated"} =>
          /\ Len(documents) = num_documents
          /\ \A k \in 1..Len(documents) : {"id", "content"} \subseteq DOMAIN documents[k]
          /\ \A a, b \in 1..Len(documents) : a # b => documents[a].id # documents[b].id
    /\ r_pc = "generated" =>
          /\ Len(test_queries) = num_queries
          /\ \A k \in 1..Len(test_queries) : "query" \in DOMAIN test_queries[k]
          /\ test_queries = [k \in 1..num_queries |-> Pad(BuiltinQueries, num_queries)[k]]

\* more queries than are built in were asked for and the last one is a
\* padding query; ten documents or more were generated
C19_Witness ==
    /\ r_pc = "generated"
    /\ num_queries > Len(BuiltinQueries)
    /\ test_queries[num_queries].type = "general"
    /\ test_queries[Len(BuiltinQueries)].type = "mixed"
    /\ num_documents >= 10
    /\ documents[10].id = <<"DOC-", <<0, 0, 1, 0>> >>

\* the stages of a run that is not cut short, in the order of run()
StageOrder == <<"setup", "indexing", "keyword", "vector", "hybrid", "persisting">>

\* the place of a method in that order
Rank(m) == CHOOSE i \in 1..Len(StageOrder) : StageOrder[i] = m

\* the stages entered before the run went to cleanup
StagesBeforeCleanup == SelectSeq(r_stages, LAMBDA st : st \notin {"cleanup", "done"})

\* C20: a run enters its stages in the order indexing, keyword benchmark,
\* vector benchmark, hybrid benchmark, persisting, and ends in done; every
\* event and every result of a method is recorded while the run is in that
\* method's stage, so a method is finished or skipped before the next one
\* starts; persisting starts only after the three benchmark stages; the
\* persisted results are in the order keyword, vector, hybrid.
C20_StageOrder ==
    /\ StagesBeforeCleanup = Prefix(StageOrder, Len(StagesBeforeCleanup))
    /\ r_stages \in {StagesBeforeCleanup, StagesBeforeCleanup \o <<"cleanup">>,
                     StagesBeforeCleanup \o <<"cleanup", "done">>}
    /\ \A i \in 1..Len(r_events) :
          /\ \E k \in 1..Len(r_stages) : r_stages[k] = r_events[i].method
          /\ \A j \in 1..Len(r_events) :
                i < j => Rank(r_events[i].method) <= Rank(r_events[j].method)
    /\ \A a, b \in 1..Len(run_results) :
          a < b => Rank(MethodOf(run_results[a])) < Rank(MethodOf(run_results[b]))
    /\ \A m \in Methods :
          (r_pc = m) => \A k \in 1..Len(run_results) : Rank(MethodOf(run_results[k])) < Rank(m)
    /\ files # <<>> =>
          /\ Len(StagesBeforeCleanup) = Len(StageOrder)
          /\ files[1].content = run_results
    /\ r_pc = "done" => r_stages[Len(r_stages)] = "done"

\* a completed run that benchmarked all three methods and persisted them
C20_Witness ==
    /\ r_pc = "done"
    /\ r_outcome = "completed"
    /\ r_stages = StageOrder \o <<"cleanup", "done">>
    /\ Len(files) = 2
    /\ Len(files[1].content) = 3
    /\ [k \in 1..3 |-> files[1].content[k].method_name]
          = <<MethodName("keyword"), MethodName("vector"), MethodName("hybrid")>>
    /\ num_queries >= 1

\* the kinds of the events method m recorded, in the order it recorded them
KindsOf(m) == [i \in 1..Len(EventsOf(m)) |-> EventsOf(m)[i].type]

\* the events one query of method m records
EventsPerQuery(m) ==
    IF m = "keyword" THEN <<"lexical_query">>
    ELSE IF m = "vector" THEN <<"embedding", "vector_query">>
    ELSE <<"embedding", "lexical_query", "vector_query">>

\* n repetitions of a sequence
RECURSIVE Repeat(_, _)
Repeat(seq, n) == IF n = 0 THEN <<>> ELSE seq \o Repeat(seq, n - 1)

\* C21: when a method's benchmark over n queries has completed, the
\* cost_breakdown attached to its result counts lexical_queries = n and no
\* embedding or vector query for keyword, embedding_calls = vector_queries
\* = n and no lexical query for vector, and embedding_calls = vector_queries
\* = lexical_queries = n for hybrid: every query of the hybrid method
\* records one embedding, not one per backend.
C21_EventCounts ==
    \A k \in 1..Len(run_results) :
        LET r == run_results[k]
            m == MethodOf(r)
            n == Len(r.detailed_results)
            b == r.cost_breakdown
        IN  /\ n = Len(test_queries)
            /\ b.lexical_queries = (IF m \in {"keyword", "hybrid"} THEN n ELSE 0)
            /\ b.embedding_calls = (IF m \in {"vector", "hybrid"} THEN n ELSE 0)
            /\ b.vector_queries = (IF m \in {"vector", "hybrid"} THEN n ELSE 0)
            /\ KindsOf(m) = Repeat(EventsPerQuery(m), n)

\* the hybrid benchmark has completed over two queries or more, after the
\* keyword and the vector benchmark, and its breakdown counts one embedding
\* per query
C21_Witness ==
    /\ Len(run_results) = 3
    /\ Len(test_queries) >= 2
    /\ MethodOf(run_results[3]) = "hybrid"
    /\ run_results[3].cost_breakdown.embedding_calls = Len(test_queries)
    /\ run_results[1].cost_breakdown.embedding_calls = 0
    /\ run_results[2].cost_breakdown.lexical_queries = 0

\* the scoring of the k-th query is over: both metrics were called
Scored(k) == k <= Len(scoring_log) /\ "relevancy" \in DOMAIN scoring_log[k]

\* C22: evaluate_search_method calls the search capability exactly once per
\* query, in input order, and has finished scoring query i before it
\* searches for query i+1; detailed_results holds one entry per input query
\* in input order, so the returned num_queries equals the length of
\* detailed_results.
C22_OneSearchPerQueryInOrder ==
    /\ search_calls = [k \in 1..Len(search_calls) |-> k]
    /\ Len(search_calls) <= e_n
    /\ Len(search_calls) \in {Len(results), Len(results) + 1}
    /\ \A k \in 1..(Len(search_calls) - 1) : Scored(k) /\ results[k].query = k
    /\ \A k \in 1..Len(results) : Scored(k) /\ results[k].query = k
    /\ e_pc = "done" =>
          /\ Len(search_calls) = e_n
          /\ e_return.num_queries = Len(e_return.detailed_results)
          /\ e_return.num_queries = e_n
          /\ \A k \in 1..e_n : e_return.detailed_results[k].query = k

\* the evaluation of two queries or more has returned, every query searched
\* for once, in input order, and scored
C22_Witness ==
    /\ e_pc = "done"
    /\ e_n >= 2
    /\ search_calls = [k \in 1..e_n |-> k]
    /\ Len(e_return.detailed_results) = e_n
    /\ \A k \in 1..e_n : Scored(k)

\* search_function has just returned for a query
Searched == e_pc = "loop" /\ e_pc' = "faithfulness"

\* the evaluation of a query has just been appended to results
Appended == Len(results') = Len(results) + 1

TimesOf(rs) == [k \in 1..Len(rs) |-> FAdd(rs[k].search_time, rs[k].evaluation_time)]

\* C24: for a non-empty query set, avg_faithfulness, avg_relevancy and
\* avg_search_time are each the sum of the per-query values of
\* detailed_results divided by the number of evaluated queries, a query
\* whose score defaulted to 0.0 after a scoring failure counting in the
\* divisor as any other; total_time is the sum over all queries of
\* search_time + evaluation_time.
C24_AveragesAndTotal ==
    /\ total_time = FSum(TimesOf(results))
    /\ (e_pc = "done" /\ e_n > 0) =>
          LET rs == e_return.detailed_results
          IN  /\ Len(rs) = e_n
              /\ Len(scoring_log) = e_n
              /\ e_return.avg_faithfulness.den = e_n
              /\ e_return.avg_relevancy.den = e_n
              /\ e_return.avg_search_time.den = e_n
              /\ e_return.avg_faithfulness.num
                    = FSum([k \in 1..e_n |-> rs[k].faithfulness_score])
              /\ e_return.avg_relevancy.num
                    = FSum([k \in 1..e_n |-> rs[k].relevancy_score])
              /\ e_return.avg_search_time.num
                    = FSum([k \in 1..e_n |-> rs[k].search_time])
              /\ e_return.total_time = FSum(TimesOf(rs))

\* an evaluation of two queries or more has returned; the faithfulness
\* scoring of the first query failed, every other score is 1.0, and the
\* searches took time
C24_Witness ==
    /\ e_pc = "done"
    /\ e_n >= 2
    /\ scoring_log[1].faithfulness.raised
    /\ \A k \in 2..e_n : e_return.detailed_results[k].faithfulness_score = 1
    /\ e_return.avg_faithfulness = Ratio(e_n - 1, e_n)
    /\ e_return.avg_search_time.num > 0
    /\ e_return.total_time > e_return.avg_search_time.num

\* C25: in every method result appended to the runner's result list the
\* top-level total_cost equals cost_breakdown.total_cost, and both are
\* taken from the method's ledger after the last query of that method was
\* searched: both cover every event the method recorded, the result is
\* appended while no search of the method is pending, and the method
\* records no event after its result is appended.
C25_TotalsTakenAtEnd ==
    /\ \A k \in 1..Len(run_results) :
          LET r == run_results[k]
              own == EventsOf(MethodOf(r))
          IN  /\ r.total_cost = r.cost_breakdown.total_cost
              /\ r.total_cost = FSum([i \in 1..Len(own) |-> own[i].cost])
              /\ Len(own) = r.cost_breakdown.embedding_calls
                              + r.cost_breakdown.vector_queries
                              + r.cost_breakdown.lexical_queries
              /\ Len(r.detailed_results) = r.num_queries
              /\ r_pc # MethodOf(r)
    /\ \A m \in Methods :
          (r_pc = m /\ r_step \in {"embed", "lexical", "vector", "score"}) =>
              \A k \in 1..Len(run_results) : MethodOf(run_results[k]) # m

\* the keyword and the hybrid result are appended, each over one query or
\* more, with a positive total
C25_Witness ==
    /\ Len(run_results) = 3
    /\ Len(test_queries) >= 1
    /\ run_results[1].total_cost > 0
    /\ run_results[3].total_cost = run_results[3].cost_breakdown.total_cost
    /\ run_results[3].total_cost > run_results[1].total_cost
    /\ run_results[3].cost_breakdown.lexical_queries = Len(test_queries)

\* the number of events of type t in the event log
CountLogged(t) == Len(OfType(cost_logs, t))

QueryTimes ==
    LET queries == SelectSeq(cost_logs, LAMBDA log : log.type # "embedding")
    IN  [i \in 1..Len(queries) |-> Magnitude(queries[i])]

\* C27: the cumulative compute time the breakdown reports is the sum of the
\* elapsed seconds of every query event in the log, lexical queries as well
\* as vector queries; a ledger that holds only lexical queries of positive
\* latency reports a positive compute time.
C27_ComputeTimeCoversLexical ==
    /\ get_cost_breakdown.total_compute_time = FSum(QueryTimes)
    /\ (/\ cost_logs # <<>>
        /\ \A i \in 1..Len(cost_logs) :
              cost_logs[i].type = "lexical_query" /\ cost_logs[i].latency > 0)
          => get_cost_breakdown.total_compute_time > 0

\* a query is being scored: its hits, contexts and test case are in place
Scoring == e_pc \in {"faithfulness", "relevancy"}

\* the shape of the content of a hit the search capability returned
ShapeOf(hit) == Shapes[((hit.id - 1) % Len(Shapes)) + 1]

\* a stringified representation of a content: never the empty string
Str(hit) ==
    IF "content" \notin DOMAIN hit THEN <<"str", {}>>
    ELSE IF IsDict(hit.content) THEN <<"str", DOMAIN hit.content>>
    ELSE hit.content.str

\* the test case was built from the expected answer the test query supplied
\* (no context text equals it)
ExpectedSupplied == test_case.actual_output = <<"expected">>

\* evaluate_query's default for a missing expected answer
DefaultsToFirstContext ==
    ~ExpectedSupplied =>
        test_case.actual_output = (IF contexts # <<>> THEN contexts[1]
                                   ELSE <<"No relevant information found.">>)

LexicalAlternatives ==
    {LexicalWindow(first, len) : first \in {1, 3, SearchLimit + 1}, len \in {0, 3, SearchLimit}}
    \cup {[k \in 1..len |-> LexicalHit(first + len - k)] :
             first \in {1, 3, SearchLimit + 1}, len \in {3, SearchLimit}}

\* the vector backend returned five hits with pairwise distinct ids
FiveDistinctVectorHits ==
    /\ Len(vector_results) = 5
    /\ Cardinality(Ids(vector_results)) = 5

\* C29: in the hybrid benchmark, whenever the vector backend returns 5 hits
\* with pairwise distinct ids, the contexts passed to scoring come from
\* those 5 vector hits only: any other hit list of the lexical backend
\* would give the same contexts and the same test case to the two metrics,
\* while the lexical query is still counted and priced in the ledger.
C29_LexicalHitsDoNotReachScoring ==
    (Scoring /\ FiveDistinctVectorHits) =>
        /\ contexts = [k \in 1..5 |-> Text(vector_results[k])]
        /\ test_case.retrieval_context = contexts
        /\ ~ExpectedSupplied => test_case.actual_output = Text(vector_results[1])
        /\ \A other \in LexicalAlternatives \cup HybridLexicalOutputs :
              ExtractContexts(Combine(vector_results, other)) = contexts
        /\ lexical_queries = e_i + 1
        /\ LET last == cost_logs[Len(cost_logs) - 1]
           IN  /\ last.type = "lexical_query"
               /\ last.cost = LexicalCost(last.latency)
               /\ last.cost > 0
               /\ get_cost_breakdown.lexical_query_cost >= last.cost

\* a query of the hybrid benchmark is being scored: the vector backend
\* returned five hits, the lexical backend five other documents, all ten
\* were fused, and the five contexts are the vector hits'
C29_Witness ==
    /\ Scoring
    /\ FiveDistinctVectorHits
    /\ Len(keyword_results) = 5
    /\ Ids(keyword_results) \cap Ids(vector_results) = {}
    /\ Len(search_results) = 10
    /\ Len(contexts) = 5
    /\ e_i >= 1
    /\ lexical_queries = e_i + 1

\* the counts (embedding_calls, vector_queries, lexical_queries) of a
\* breakdown
Counts(b) == <<b.embedding_calls, b.vector_queries, b.lexical_queries>>

\* the last call of track_search_method that returned for a name
LastTracked(name) ==
    t_log[CHOOSE i \in 1..Len(t_log) :
            /\ t_log[i].method_name = name
            /\ \A j \in (i + 1)..Len(t_log) : t_log[j].method_name # name]

====
